---- MODULE Spec2Model ----
(***************************************************************************)
(* A model of the v3kn server (Zangetsu38/v3kn): the account/token layer   *)
(* (account.cpp, utils.cpp), the friend relation engine, the event inbox,  *)
(* the per-NPID poll signals and the presence registry (friend.cpp).       *)
(*                                                                         *)
(* Handlers that run under request_mutex are one atomic action each; the   *)
(* long poll, notify_friend_poll and the presence heartbeat, which do not  *)
(* take request_mutex, are split at the points where they hold no lock.    *)
(*                                                                         *)
(* Abstractions: timestamps stored beside list entries (since, sent_at,    *)
(* received_at, blocked_at, at) are dropped; a heartbeat timestamp is kept *)
(* as its age class and last_status_change as the set of its keys; a       *)
(* password is the client hash it was derived from; generate_token never   *)
(* returns a token twice; request parameters that pass through trim_npid   *)
(* range over already-trimmed values.                                      *)
(***************************************************************************)
EXTENDS Integers, Sequences, FiniteSets, TLC

VARIABLES
    users,          \* db["users"] of v3kn/users.json: NPID -> record or NoUser
    db_tokens,      \* db["tokens"] of v3kn/users.json: token -> NPID or ""
    token_cache,    \* utils.cpp token_cache: token -> NPID or ""
    generated,      \* how many tokens generate_token has returned so far
    friends_data,   \* v3kn/Users/<npid>/friends.json, per NPID
    friend_events,  \* friend.cpp friend_events: NPID -> list of events (the inbox)
    events_disk,    \* v3kn/events.json as last written
    res,            \* the body of the last response sent to a request_mutex handler
    friend_poll_signals, \* friend.cpp friend_poll_signals: NPID -> signal, or NoSignal
    waiters,        \* FriendPollSignal::waiters of each signal object
    p_pc,           \* each long-poll handler's position in handle_friend_poll
    p_npid,         \* the NPID it polls for
    p_signal,       \* its poll_signal (a shared_ptr: NoSignal when it holds none)
    p_budget,       \* whether its 30 s budget still has time left
    p_res,          \* the response it has set (blank once the handler has returned)
    n_pc,           \* each notifying handler's position (push, then notify_friend_poll)
    n_npid,         \* the NPID it pushed to and notifies
    n_signal,       \* the signal its lookup found
    online_users,   \* friend.cpp online_users: NPID -> age of its last heartbeat
    online_now_playing, \* friend.cpp online_now_playing ("" when absent)
    presence_status,    \* friend.cpp presence_status ("offline" when absent)
    pending_online_poll, \* friend.cpp pending_online_poll
    last_status_change, \* the NPIDs friend.cpp last_status_change has an entry for
    h_pc,           \* each heartbeat handler's position in handle_friend_presence
    h_npid,         \* its npid
    h_status,       \* its status parameter
    h_old_status,   \* its old_status
    h_status_changed, \* its status_changed
    h_pending,      \* whether its npid was in pending_online_poll when it took the lock
    subsecond,      \* the fraction of the current second that has passed, in ticks
    heartbeat_age,  \* ticks since online_users[npid] was written (-1: no entry)
    monitor_timer,  \* ticks left of the sweeper's wait_for (-1: waiting for a user)
    mutex_owner,    \* mutex -> the thread that holds it (0: nobody)
    lk_routine,     \* thread -> the routine it is running ("": none)
    lk_pc,          \* thread -> the operation of the routine it is about to do
    conv_meta,      \* conversation directory -> its metadata.json (NoConversation: no file)
    conv_log,       \* conversation directory -> its messages.json
    user_convs,     \* NPID -> the user's conversations.json, a list of conversation IDs
    groups_created, \* how many group conversation IDs have been generated
    leftover_dirs,  \* the names without account whose v3kn/Users/<name> holds files
    msg_clock,      \* std::time(0) as the messages handlers read it, in seconds
    mp_pc,          \* the messages long poll's position in handle_messages_poll
    mp_npid,        \* its npid
    mp_since,       \* its since_timestamp
    mp_todo,        \* the entries of user_conversations its scan has still to read
    mp_found,       \* its new_messages
    mp_budget,      \* whether its 30 s budget still has time left
    mp_res,         \* the response it has set (blank until it returns)
    quota_used,     \* db["users"][npid]["quota_used"], per NPID
    stored_files,   \* size of each v3kn/Users/<npid>/<type>/<id>/<file> (-1: no file)
    trophy_points,  \* the points load_trophies_summary passes on
    trophy_level,   \* summary["level"]
    trophy_progress \* summary["progress"]

account_vars == <<users, db_tokens, token_cache, generated>>
inbox_vars == <<friend_events, events_disk>>
registry_vars == <<friend_poll_signals, waiters>>
poller_vars == <<p_pc, p_npid, p_signal, p_budget, p_res>>
notifier_vars == <<n_pc, n_npid, n_signal>>
presence_vars == <<online_users, online_now_playing, presence_status, pending_online_poll,
                   last_status_change>>
heartbeat_vars == <<h_pc, h_npid, h_status, h_old_status, h_status_changed, h_pending>>
clock_vars == <<subsecond, heartbeat_age, monitor_timer>>
lock_vars == <<mutex_owner, lk_routine, lk_pc>>
msg_vars == <<conv_meta, conv_log, user_convs, groups_created, leftover_dirs>>
msg_poll_vars == <<msg_clock, mp_pc, mp_npid, mp_since, mp_todo, mp_found, mp_budget, mp_res>>
storage_vars == <<quota_used, stored_files>>
trophy_vars == <<trophy_points, trophy_level, trophy_progress>>

vars == <<account_vars, friends_data, inbox_vars, res, registry_vars, poller_vars,
          notifier_vars, presence_vars, heartbeat_vars, clock_vars, lock_vars, msg_vars,
          msg_poll_vars, storage_vars, trophy_vars>>

(***************************************************************************)
(* Bounds                                                                  *)
(***************************************************************************)
\* The longest inbox a push may extend (pushes are refused beyond it).
MaxInbox == 2
\* Concurrent long-poll handlers and concurrent notifying handlers.
NumPollers == 2
NumNotifiers == 1
\* Concurrent presence heartbeat handlers.
NumHeartbeats == 2
\* Tokens generate_token hands out before the run ends.
MaxTokens == 3
\* Handler threads that take mutexes at the same time.
NumLockThreads == 2
\* Group conversations created in a run.
MaxGroups == 1
\* The longest message log a send may extend, and the seconds the messages
\* clock runs.
MaxLog == 2
MaxMsgClock == 1
\* The sampled points values: a window around each range boundary and a stride
\* over the table.
TrophyWindow == 120
TrophyStride == 97
\* Ticks per second of the sweeper's clock.
TicksPerSecond == 2
\* Seconds between two heartbeats of a client that sends them regularly.
HeartbeatPeriod == 5

(***************************************************************************)
(* Names                                                                   *)
(***************************************************************************)
\* The accounts of the friend-engine runs, and a handle no account has.
NPIDs == {"Ann", "Bob"}
Stranger == "Zoe"
\* target_npid values a request can carry ("" is a missing parameter).
Targets == NPIDs \cup {Stranger, ""}
\* The accounts of the long-poll runs.
PollNPIDs == {"Ann", "Bob", "Cid"}

\* A handle shorter than handle_create_account accepts.
ShortNPID == "ab"

\* Every handle a request can name.
Names == PollNPIDs \cup {Stranger, ShortNPID}

\* Bearer tokens generate_token can return, and one it never issued.
TokenPool == {"t" \o ToString(i) : i \in 1..MaxTokens}
BadToken == "bad"
\* Authorization values a request can carry ("" is no bearer token).
ReqTokens == TokenPool \cup {BadToken, ""}
\* The token each account that exists from the start was created with.
TokenOf == [n \in PollNPIDs |-> CASE n = "Ann" -> "t1" [] n = "Bob" -> "t2" [] OTHER -> "t3"]

\* Client password hashes a request can carry ("" is a missing parameter).
Passwords == {"pw1", "pw2"}

NoUser == [present |-> FALSE, token |-> "", password |-> ""]

Pollers == 1..NumPollers
Notifiers == 1..NumNotifiers
Heartbeats == 1..NumHeartbeats
\* Signal objects: NoSignal is the null shared_ptr.  Every live object is held by
\* the registry, a poller or a notifier, so this many identities are enough.
NoSignal == 0
Signals == 1..(Cardinality(PollNPIDs) + NumPollers + NumNotifiers)

\* The title and trophy-set ids of the stored files.
SaveIDs == {"PCSA00001", "PCSB00002"}
TrophyIDs == {"NPWR00001_00"}
\* The accounts that upload.
Uploaders == {"Ann", "Bob"}

\* The save and trophy files a user directory can hold:
\* savedata/<id>/savedata.psvimg and trophy/<id>/TROPUSR.DAT.
UserFiles ==
    {<<n, "savedata", id>> : n \in Names, id \in SaveIDs}
        \cup {<<n, "trophy", id>> : n \in Names, id \in TrophyIDs}

EmptyFriends == [friends |-> <<>>, sent |-> <<>>, received |-> <<>>, players_blocked |-> <<>>]

(***************************************************************************)
(* utils.cpp                                                               *)
(***************************************************************************)
\* get_npid_from_token: the cached NPID, "" when the token is not cached.
get_npid_from_token(token) ==
    IF token \in DOMAIN token_cache THEN token_cache[token] ELSE ""

\* get_valid_npid: [npid, err]; npid = "" exactly when err is set.
get_valid_npid(token) ==
    IF token = "" THEN [npid |-> "", err |-> "ERR:MissingToken"]
    ELSE IF get_npid_from_token(token) = "" THEN [npid |-> "", err |-> "ERR:InvalidToken"]
    ELSE [npid |-> get_npid_from_token(token), err |-> ""]

\* db["users"].contains(npid)
user_exists(npid) == npid \in DOMAIN users /\ users[npid] # NoUser

(***************************************************************************)
(* friend.cpp: friend file helpers                                         *)
(***************************************************************************)
\* load_friends_data: a missing file reads as four empty lists.
load_friends_data(npid) ==
    IF npid \in DOMAIN friends_data THEN friends_data[npid] ELSE EmptyFriends

has_friend(list, npid) == \E i \in 1..Len(list) : list[i] = npid

\* Index of the first entry naming npid (0 when there is none).
first_index(list, npid) ==
    IF has_friend(list, npid)
    THEN CHOOSE i \in 1..Len(list) :
            list[i] = npid /\ \A j \in 1..(i - 1) : list[j] # npid
    ELSE 0

\* A remove_friend that erases nothing.
remove_friend_kept(list, npid) == list

\* remove_friend: erases the first entry naming npid and returns.
remove_friend(list, npid) ==
    LET i == first_index(list, npid) IN
    IF i = 0 THEN list
    ELSE SubSeq(list, 1, i - 1) \o SubSeq(list, i + 1, Len(list))

(***************************************************************************)
(* friend.cpp: event inbox                                                 *)
(***************************************************************************)
RequestEvent(sender) ==
    [type |-> "friends_request_received", npid |-> sender, status |-> ""]
StatusEvent(sender, is_online) ==
    [type |-> "status_changed", npid |-> sender,
     status |-> IF is_online THEN "online" ELSE "offline"]

\* A push that appends the event twice.
push_friend_event_twice(npid, type, target_npid) ==
    /\ friend_events' = [friend_events EXCEPT ![npid] =
            Append(Append(@, [type |-> type, npid |-> target_npid, status |-> ""]),
                   [type |-> type, npid |-> target_npid, status |-> ""])]
    /\ events_disk' = friend_events'

\* push_friend_event: append under friend_events_mutex, then rewrite the journal.
push_friend_event(npid, type, target_npid) ==
    /\ friend_events' = [friend_events EXCEPT ![npid] =
            Append(@, [type |-> type, npid |-> target_npid, status |-> ""])]
    /\ events_disk' = friend_events'

\* push_friend_status_event: append under friend_events_mutex; the journal is
\* not rewritten.
push_friend_status_event(npid, target_npid, is_online) ==
    /\ friend_events' = [friend_events EXCEPT ![npid] = Append(@, StatusEvent(target_npid, is_online))]
    /\ UNCHANGED events_disk

\* A cancel that leaves the inbox as it is.
remove_friend_event_skipped(npid, type, target_npid) == UNCHANGED inbox_vars

\* remove_friend_event: drop every event of that type and sender; nothing is
\* written when the NPID has no inbox.
remove_friend_event(npid, type, target_npid) ==
    IF friend_events[npid] = <<>>
    THEN UNCHANGED inbox_vars
    ELSE /\ friend_events' = [friend_events EXCEPT ![npid] =
                SelectSeq(@, LAMBDA e : ~(e.type = type /\ e.npid = target_npid))]
         /\ events_disk' = friend_events'

(***************************************************************************)
(* friend.cpp: poll signals                                                *)
(***************************************************************************)
\* The lookup of notify_friend_poll, under friend_poll_signals_mutex.
notify_lookup(npid) == friend_poll_signals[npid]

\* Pollers blocked in wait_for on the condition variable of signal.
blocked_on(signal) == {p \in Pollers : p_pc[p] = "waiting" /\ p_signal[p] = signal}

\* signal->cv.notify_one(): one blocked waiter of that signal resumes its loop;
\* nothing happens for a null signal or without a blocked waiter.
notify_one(signal) ==
    IF signal = NoSignal \/ blocked_on(signal) = {}
    THEN UNCHANGED p_pc
    ELSE \E p \in blocked_on(signal) : p_pc' = [p_pc EXCEPT ![p] = "drain"]

\* notify_friend_poll called inside a handler that holds request_mutex.
notify_friend_poll(npid) ==
    /\ notify_one(notify_lookup(npid))
    /\ UNCHANGED <<registry_vars, p_npid, p_signal, p_budget, p_res, notifier_vars,
                   presence_vars, heartbeat_vars, clock_vars, lock_vars, msg_vars, msg_poll_vars, storage_vars, trophy_vars>>

no_notify == UNCHANGED <<registry_vars, poller_vars, notifier_vars, presence_vars,
                         heartbeat_vars, clock_vars, lock_vars, msg_vars, msg_poll_vars, storage_vars, trophy_vars>>

(***************************************************************************)
(* friend.cpp: the friend relation engine.  Every handler holds            *)
(* request_mutex and account_mutex, so each is one step.                   *)
(***************************************************************************)
\* save_friends(npid, data) on the set of friend files f.
save_friends(f, npid, data) ==
    [x \in DOMAIN f \cup {npid} |-> IF x = npid THEN data ELSE f[x]]

\* An early return: the response is set and nothing else is touched.
early_return(body) ==
    /\ res' = body
    /\ UNCHANGED <<account_vars, presence_vars, heartbeat_vars, clock_vars, lock_vars, msg_vars, msg_poll_vars, storage_vars, trophy_vars, friends_data, inbox_vars>>
    /\ no_notify

\* A request to a blocking target recorded on both sides.
store_blocked_request_mirrored(npid, target_npid) ==
    save_friends(save_friends(friends_data, npid,
                    [load_friends_data(npid) EXCEPT !.sent = Append(@, target_npid)]),
                 target_npid,
                 [load_friends_data(target_npid) EXCEPT !.received = Append(@, npid)])

\* Lines 535-542: the request to a blocking target is recorded in the
\* sender's file only.
store_blocked_request(npid, target_npid) ==
    save_friends(friends_data, npid,
                 [load_friends_data(npid) EXCEPT !.sent = Append(@, target_npid)])

handle_friend_add(token, target_npid) ==
    LET v == get_valid_npid(token)
        npid == v.npid
        user_friends == load_friends_data(npid)
        target_friends == load_friends_data(target_npid)
        is_blocked_by_target == has_friend(target_friends.players_blocked, npid)
        has_received_request == has_friend(user_friends.received, target_npid)
        has_target_sent_request == has_friend(target_friends.sent, npid)
    IN
    IF npid = "" THEN early_return(v.err)
    ELSE IF target_npid = "" THEN early_return("ERR:MissingTargetNPID")
    ELSE IF npid = target_npid THEN early_return("ERR:CannotAddYourself")
    ELSE IF ~user_exists(target_npid) THEN early_return("ERR:UserNotFound")
    ELSE IF has_friend(user_friends.friends, target_npid) THEN early_return("ERR:AlreadyFriends")
    ELSE IF has_friend(user_friends.sent, target_npid) THEN early_return("ERR:RequestAlreadySent")
    ELSE IF is_blocked_by_target THEN
        \* silently stored: only the sender's file is written
        /\ friends_data' = store_blocked_request(npid, target_npid)
        /\ res' = "OK:RequestSent"
        /\ UNCHANGED <<account_vars, presence_vars, heartbeat_vars, clock_vars, lock_vars, msg_vars, msg_poll_vars, storage_vars, trophy_vars, inbox_vars>>
        /\ no_notify
    ELSE IF has_received_request \/ has_target_sent_request THEN
        \* auto-accept
        LET uf == [user_friends EXCEPT
                     !.received = IF has_received_request
                                  THEN remove_friend(@, target_npid) ELSE @,
                     !.friends = Append(@, target_npid)]
            tf == [target_friends EXCEPT
                     !.sent = IF has_target_sent_request
                              THEN remove_friend(@, npid) ELSE @,
                     !.friends = Append(@, npid)]
        IN
        /\ friends_data' = save_friends(save_friends(friends_data, npid, uf), target_npid, tf)
        /\ res' = "OK:FriendAdded"
        /\ UNCHANGED <<account_vars, presence_vars, heartbeat_vars, clock_vars, lock_vars, msg_vars, msg_poll_vars, storage_vars, trophy_vars, inbox_vars>>
        /\ no_notify
    ELSE
        \* plain request
        LET uf == [user_friends EXCEPT !.sent = Append(@, target_npid)]
            tf == [target_friends EXCEPT !.received = Append(@, npid)]
        IN
        /\ Len(friend_events[target_npid]) < MaxInbox
        /\ friends_data' = save_friends(save_friends(friends_data, npid, uf), target_npid, tf)
        /\ push_friend_event(target_npid, "friends_request_received", npid)
        /\ notify_friend_poll(target_npid)
        /\ res' = "OK:RequestSent"
        /\ UNCHANGED account_vars

handle_friend_accept(token, target_npid) ==
    LET v == get_valid_npid(token)
        npid == v.npid
        user_friends == load_friends_data(npid)
        target_friends == load_friends_data(target_npid)
    IN
    IF npid = "" THEN early_return(v.err)
    ELSE IF target_npid = "" THEN early_return("ERR:MissingTargetNPID")
    ELSE IF ~user_exists(target_npid) THEN early_return("ERR:UserNotFound")
    ELSE IF ~has_friend(user_friends.received, target_npid) THEN early_return("ERR:NoRequestFound")
    ELSE
        LET uf == [user_friends EXCEPT !.received = remove_friend(@, target_npid),
                                       !.friends = Append(@, target_npid)]
            tf == [target_friends EXCEPT !.sent = remove_friend(@, npid),
                                         !.friends = Append(@, npid)]
        IN
        /\ friends_data' = save_friends(save_friends(friends_data, npid, uf), target_npid, tf)
        /\ res' = "OK:FriendAdded"
        /\ UNCHANGED <<account_vars, presence_vars, heartbeat_vars, clock_vars, lock_vars, msg_vars, msg_poll_vars, storage_vars, trophy_vars, inbox_vars>>
        /\ no_notify

handle_friend_reject(token, target_npid) ==
    LET v == get_valid_npid(token)
        npid == v.npid
        user_friends == load_friends_data(npid)
        target_friends == load_friends_data(target_npid)
    IN
    IF npid = "" THEN early_return(v.err)
    ELSE IF target_npid = "" THEN early_return("ERR:MissingTargetNPID")
    ELSE IF ~user_exists(target_npid) THEN early_return("ERR:UserNotFound")
    ELSE IF ~has_friend(user_friends.received, target_npid) THEN early_return("ERR:NoRequestFound")
    ELSE
        LET uf == [user_friends EXCEPT !.received = remove_friend(@, target_npid)]
            tf == [target_friends EXCEPT !.sent = remove_friend(@, npid)]
        IN
        /\ friends_data' = save_friends(save_friends(friends_data, npid, uf), target_npid, tf)
        /\ res' = "OK:RequestRejected"
        /\ UNCHANGED <<account_vars, presence_vars, heartbeat_vars, clock_vars, lock_vars, msg_vars, msg_poll_vars, storage_vars, trophy_vars, inbox_vars>>
        /\ no_notify

\* The target's file with the friendship left in place.
remove_target_side_forgotten(target_friends, npid) == target_friends

\* remove_friend(target_friends["friends"], npid) of handle_friend_remove.
remove_target_side(target_friends, npid) ==
    [target_friends EXCEPT !.friends = remove_friend(@, npid)]

handle_friend_remove(token, target_npid) ==
    LET v == get_valid_npid(token)
        npid == v.npid
        user_friends == load_friends_data(npid)
        target_friends == load_friends_data(target_npid)
    IN
    IF npid = "" THEN early_return(v.err)
    ELSE IF target_npid = "" THEN early_return("ERR:MissingTargetNPID")
    ELSE IF ~user_exists(target_npid) THEN early_return("ERR:UserNotFound")
    ELSE IF ~has_friend(user_friends.friends, target_npid) THEN early_return("ERR:NotFriends")
    ELSE
        LET uf == [user_friends EXCEPT !.friends = remove_friend(@, target_npid)]
            tf == remove_target_side(target_friends, npid)
        IN
        /\ friends_data' = save_friends(save_friends(friends_data, npid, uf), target_npid, tf)
        /\ res' = "OK:FriendRemoved"
        /\ UNCHANGED <<account_vars, presence_vars, heartbeat_vars, clock_vars, lock_vars, msg_vars, msg_poll_vars, storage_vars, trophy_vars, inbox_vars>>
        /\ no_notify

\* A cancel that clears the inbox before it looks for the sent entry.
handle_friend_cancel_event_first(token, target_npid) ==
    LET v == get_valid_npid(token)
        npid == v.npid
        user_friends == load_friends_data(npid)
        target_friends == load_friends_data(target_npid)
    IN
    IF npid = "" THEN early_return(v.err)
    ELSE IF target_npid = "" THEN early_return("ERR:MissingTargetNPID")
    ELSE IF ~user_exists(target_npid) THEN early_return("ERR:UserNotFound")
    ELSE
        /\ remove_friend_event(target_npid, "friends_request_received", npid)
        /\ IF ~has_friend(user_friends.sent, target_npid)
           THEN /\ res' = "ERR:NoRequestFound"
                /\ UNCHANGED friends_data
           ELSE /\ friends_data' =
                      save_friends(save_friends(friends_data, npid,
                          [user_friends EXCEPT !.sent = remove_friend(@, target_npid)]),
                        target_npid,
                        [target_friends EXCEPT !.received = remove_friend(@, npid)])
                /\ res' = "OK:RequestCancelled"
        /\ UNCHANGED account_vars
        /\ no_notify

handle_friend_cancel(token, target_npid) ==
    LET v == get_valid_npid(token)
        npid == v.npid
        user_friends == load_friends_data(npid)
        target_friends == load_friends_data(target_npid)
    IN
    IF npid = "" THEN early_return(v.err)
    ELSE IF target_npid = "" THEN early_return("ERR:MissingTargetNPID")
    ELSE IF ~user_exists(target_npid) THEN early_return("ERR:UserNotFound")
    ELSE IF ~has_friend(user_friends.sent, target_npid) THEN early_return("ERR:NoRequestFound")
    ELSE
        LET uf == [user_friends EXCEPT !.sent = remove_friend(@, target_npid)]
            tf == [target_friends EXCEPT !.received = remove_friend(@, npid)]
        IN
        /\ friends_data' = save_friends(save_friends(friends_data, npid, uf), target_npid, tf)
        /\ remove_friend_event(target_npid, "friends_request_received", npid)
        /\ res' = "OK:RequestCancelled"
        /\ UNCHANGED account_vars
        /\ no_notify

handle_friend_block(token, target_npid) ==
    LET v == get_valid_npid(token)
        npid == v.npid
        user_friends == load_friends_data(npid)
        target_friends == load_friends_data(target_npid)
        is_friends == has_friend(user_friends.friends, target_npid)
        user_sent_request == has_friend(user_friends.sent, target_npid)
        target_sent_request == has_friend(target_friends.sent, npid)
    IN
    IF npid = "" THEN early_return(v.err)
    ELSE IF target_npid = "" THEN early_return("ERR:MissingTargetNPID")
    ELSE IF npid = target_npid THEN early_return("ERR:CannotBlockYourself")
    ELSE IF ~user_exists(target_npid) THEN early_return("ERR:UserNotFound")
    ELSE
        LET uf1 == [user_friends EXCEPT
                      !.players_blocked = IF has_friend(@, target_npid)
                                          THEN @ ELSE Append(@, target_npid)]
            uf2 == [uf1 EXCEPT
                      !.friends = IF is_friends THEN remove_friend(@, target_npid) ELSE @,
                      !.sent = IF user_sent_request THEN remove_friend(@, target_npid) ELSE @]
            uf == [uf2 EXCEPT
                      !.received = IF target_sent_request
                                   THEN remove_friend(@, target_npid) ELSE @]
            tf == [target_friends EXCEPT
                      !.friends = IF is_friends THEN remove_friend(@, npid) ELSE @,
                      !.received = IF user_sent_request THEN remove_friend(@, npid) ELSE @]
        IN
        /\ friends_data' =
              IF is_friends \/ user_sent_request
              THEN save_friends(save_friends(friends_data, npid, uf), target_npid, tf)
              ELSE save_friends(friends_data, npid, uf)
        /\ res' = "OK:PlayerBlocked"
        /\ UNCHANGED <<account_vars, presence_vars, heartbeat_vars, clock_vars, lock_vars, msg_vars, msg_poll_vars, storage_vars, trophy_vars, inbox_vars>>
        /\ no_notify

\* The unblocking user's file without the received entry recreated.
unblock_user_side_no_recreate(user_friends, target_npid, recreate) ==
    [user_friends EXCEPT !.players_blocked = remove_friend(@, target_npid)]

\* The unblocking user's file: the block dropped and, when the target still
\* has its request pending, the received entry recreated.
unblock_user_side(user_friends, target_npid, recreate) ==
    [user_friends EXCEPT
        !.players_blocked = remove_friend(@, target_npid),
        !.received = IF recreate THEN Append(@, target_npid) ELSE @]

handle_friend_unblock(token, target_npid) ==
    LET v == get_valid_npid(token)
        npid == v.npid
        user_friends == load_friends_data(npid)
        target_friends == load_friends_data(target_npid)
        target_sent_request == has_friend(target_friends.sent, npid)
        recreate == target_sent_request /\ ~has_friend(user_friends.received, target_npid)
    IN
    IF npid = "" THEN early_return(v.err)
    ELSE IF target_npid = "" THEN early_return("ERR:MissingTargetNPID")
    ELSE IF ~user_exists(target_npid) THEN early_return("ERR:UserNotFound")
    ELSE
        LET uf == unblock_user_side(user_friends, target_npid, recreate)
        IN
        /\ friends_data' = save_friends(friends_data, npid, uf)
        /\ IF recreate THEN notify_friend_poll(npid) ELSE no_notify
        /\ res' = "OK:PlayerUnblocked"
        /\ UNCHANGED <<account_vars, presence_vars, heartbeat_vars, clock_vars, lock_vars, msg_vars, msg_poll_vars, storage_vars, trophy_vars, inbox_vars>>

(***************************************************************************)
(* friend.cpp: handle_friend_poll, which takes no request_mutex.  Its      *)
(* steps are the stretches during which it holds one lock.                 *)
(***************************************************************************)
\* The loop body over the drained events: status_changed events are folded
\* into friend_status, the first friends_request_received is kept, any other
\* event is kept.
RECURSIVE drain_loop(_, _, _)
drain_loop(events, i, acc) ==
    IF i > Len(events) THEN acc
    ELSE LET e == events[i] IN
         IF e.type = "status_changed"
         THEN drain_loop(events, i + 1,
                [acc EXCEPT !.friend_status = Append(@, [npid |-> e.npid, status |-> e.status]),
                            !.has_changes = TRUE])
         ELSE IF e.type = "friends_request_received"
         THEN IF ~acc.has_request_received
              THEN drain_loop(events, i + 1,
                     [acc EXCEPT !.events = Append(@, e), !.has_request_received = TRUE])
              ELSE drain_loop(events, i + 1, acc)
         ELSE drain_loop(events, i + 1, [acc EXCEPT !.events = Append(@, e)])

\* The changes object of one loop iteration, with has_changes.
drain_changes(events) ==
    LET acc == drain_loop(events, 1,
                 [friend_status |-> <<>>, events |-> <<>>,
                  has_request_received |-> FALSE, has_changes |-> FALSE])
    IN [friend_status |-> acc.friend_status,
        events |-> acc.events,
        has_changes |-> acc.has_changes \/ acc.events # <<>>]

\* Signal objects some shared_ptr still refers to.
live_signals ==
    ({friend_poll_signals[x] : x \in DOMAIN friend_poll_signals}
        \cup {p_signal[p] : p \in Pollers}
        \cup {n_signal[n] : n \in Notifiers}) \ {NoSignal}

\* std::make_shared<FriendPollSignal>(): an object nothing refers to yet.
new_signal == CHOOSE s \in Signals \ live_signals :
                 \A t \in Signals \ live_signals : s <= t

\* A poll response: an ERR: line, "{}", or the changes object ("changes").
poll_response(body, friend_status, events) ==
    [body |-> body, friend_status |-> friend_status, events |-> events]

\* Entry of handle_friend_poll up to get_friend_poll_signal (registry mutex held).
poll_begin(p, token, since_ok) ==
    LET v == get_valid_npid(token)
        npid == v.npid
        found == friend_poll_signals[npid]
        signal == IF found = NoSignal THEN new_signal ELSE found
    IN
    /\ p_pc[p] = "idle"
    /\ IF npid = "" THEN
            /\ p_res' = [p_res EXCEPT ![p] = poll_response(v.err, <<>>, <<>>)]
            /\ UNCHANGED <<registry_vars, p_pc, p_npid, p_signal, p_budget>>
       ELSE IF ~since_ok THEN
            /\ p_res' = [p_res EXCEPT ![p] = poll_response("ERR:InvalidTimestamp", <<>>, <<>>)]
            /\ UNCHANGED <<registry_vars, p_pc, p_npid, p_signal, p_budget>>
       ELSE
            /\ friend_poll_signals' = [friend_poll_signals EXCEPT ![npid] = signal]
            /\ waiters' = IF found = NoSignal THEN [waiters EXCEPT ![signal] = 0] ELSE waiters
            /\ p_signal' = [p_signal EXCEPT ![p] = signal]
            /\ p_npid' = [p_npid EXCEPT ![p] = npid]
            /\ p_budget' = [p_budget EXCEPT ![p] = TRUE]
            /\ p_res' = [p_res EXCEPT ![p] = poll_response("", <<>>, <<>>)]
            /\ p_pc' = [p_pc EXCEPT ![p] = "register"]
    /\ UNCHANGED <<account_vars, presence_vars, heartbeat_vars, clock_vars, lock_vars, msg_vars, msg_poll_vars, storage_vars, trophy_vars, friends_data, inbox_vars, res, notifier_vars>>

\* FriendPollWaiter's constructor (registry mutex held).
poll_register(p) ==
    /\ p_pc[p] = "register"
    /\ waiters' = [waiters EXCEPT ![p_signal[p]] = @ + 1]
    /\ p_pc' = [p_pc EXCEPT ![p] = "drain"]
    /\ UNCHANGED <<account_vars, presence_vars, heartbeat_vars, clock_vars, lock_vars, msg_vars, msg_poll_vars, storage_vars, trophy_vars, friends_data, inbox_vars, res, friend_poll_signals,
                   p_npid, p_signal, p_budget, p_res, notifier_vars>>

\* A read of the inbox that copies the events and erases nothing.
get_friend_events_copied(npid) == UNCHANGED inbox_vars

\* get_friend_events_since (friend_events_mutex held): the inbox of npid is
\* moved out and the journal rewritten; nothing is written for an absent inbox.
get_friend_events_since(npid) ==
    IF friend_events[npid] # <<>>
    THEN /\ friend_events' = [friend_events EXCEPT ![npid] = <<>>]
         /\ events_disk' = friend_events'
    ELSE UNCHANGED inbox_vars

\* One iteration of the loop up to the decision to return the changes.
poll_drain(p) ==
    LET npid == p_npid[p]
        events == friend_events[npid]
        changes == drain_changes(events)
    IN
    /\ p_pc[p] = "drain"
    /\ get_friend_events_since(npid)
    /\ IF changes.has_changes
       THEN /\ p_res' = [p_res EXCEPT ![p] =
                   poll_response("changes", changes.friend_status, changes.events)]
            /\ p_pc' = [p_pc EXCEPT ![p] = "leave"]
       ELSE /\ p_pc' = [p_pc EXCEPT ![p] = "check"]
            /\ UNCHANGED p_res
    /\ UNCHANGED <<account_vars, presence_vars, heartbeat_vars, clock_vars, lock_vars, msg_vars, msg_poll_vars, storage_vars, trophy_vars, friends_data, res, registry_vars,
                   p_npid, p_signal, p_budget, notifier_vars>>

\* The remaining-budget test, then wait_for on the signal's condition variable.
poll_check(p) ==
    /\ p_pc[p] = "check"
    /\ IF ~p_budget[p]
       THEN /\ p_res' = [p_res EXCEPT ![p] = poll_response("{}", <<>>, <<>>)]
            /\ p_pc' = [p_pc EXCEPT ![p] = "leave"]
       ELSE /\ p_pc' = [p_pc EXCEPT ![p] = "waiting"]
            /\ UNCHANGED p_res
    /\ UNCHANGED <<account_vars, presence_vars, heartbeat_vars, clock_vars, lock_vars, msg_vars, msg_poll_vars, storage_vars, trophy_vars, friends_data, inbox_vars, res, registry_vars,
                   p_npid, p_signal, p_budget, notifier_vars>>

\* The 30 s budget runs out; a handler blocked in wait_for returns from it.
poll_timeout(p) ==
    /\ p_pc[p] \in {"drain", "check", "waiting"}
    /\ p_budget[p]
    /\ p_budget' = [p_budget EXCEPT ![p] = FALSE]
    /\ p_pc' = [p_pc EXCEPT ![p] = IF @ = "waiting" THEN "drain" ELSE @]
    /\ UNCHANGED <<account_vars, presence_vars, heartbeat_vars, clock_vars, lock_vars, msg_vars, msg_poll_vars, storage_vars, trophy_vars, friends_data, inbox_vars, res, registry_vars,
                   p_npid, p_signal, p_res, notifier_vars>>

\* wait_for returns without a notification (a spurious wakeup).
poll_spurious_wakeup(p) ==
    /\ p_pc[p] = "waiting"
    /\ p_pc' = [p_pc EXCEPT ![p] = "drain"]
    /\ UNCHANGED <<account_vars, presence_vars, heartbeat_vars, clock_vars, lock_vars, msg_vars, msg_poll_vars, storage_vars, trophy_vars, friends_data, inbox_vars, res, registry_vars,
                   p_npid, p_signal, p_budget, p_res, notifier_vars>>

\* A destructor that only decrements the count and leaves the registry alone.
waiter_release_no_erase(p) ==
    LET signal == p_signal[p]
        left == IF waiters[signal] > 0 THEN waiters[signal] - 1 ELSE waiters[signal]
    IN
    /\ waiters' = [waiters EXCEPT ![signal] = left]
    /\ UNCHANGED friend_poll_signals

\* FriendPollWaiter's destructor (registry mutex held), then the shared_ptr
\* is released.
waiter_release(p) ==
    LET signal == p_signal[p]
        npid == p_npid[p]
        left == IF waiters[signal] > 0 THEN waiters[signal] - 1 ELSE waiters[signal]
    IN
    /\ waiters' = [waiters EXCEPT ![signal] = left]
    /\ friend_poll_signals' =
          IF left = 0 /\ friend_poll_signals[npid] = signal
          THEN [friend_poll_signals EXCEPT ![npid] = NoSignal]
          ELSE friend_poll_signals

poll_leave(p) ==
    /\ p_pc[p] = "leave"
    /\ waiter_release(p)
    /\ p_pc' = [p_pc EXCEPT ![p] = "idle"]
    /\ p_signal' = [p_signal EXCEPT ![p] = NoSignal]
    /\ p_npid' = [p_npid EXCEPT ![p] = ""]
    /\ p_budget' = [p_budget EXCEPT ![p] = TRUE]
    /\ p_res' = [p_res EXCEPT ![p] = poll_response("", <<>>, <<>>)]
    /\ UNCHANGED <<account_vars, presence_vars, heartbeat_vars, clock_vars, lock_vars, msg_vars, msg_poll_vars, storage_vars, trophy_vars, friends_data, inbox_vars, res, notifier_vars>>

(***************************************************************************)
(* A handler that pushes an event and then calls notify_friend_poll, as    *)
(* the tail of handle_friend_add and the loop of                           *)
(* push_status_event_to_friends do, at the granularity of its locks.       *)
(***************************************************************************)
notifier_push(n, npid, event) ==
    /\ n_pc[n] = "idle"
    /\ Len(friend_events[npid]) < MaxInbox
    /\ IF event.type = "status_changed"
       THEN push_friend_status_event(npid, event.npid, TRUE)
       ELSE push_friend_event(npid, event.type, event.npid)
    /\ n_pc' = [n_pc EXCEPT ![n] = "lookup"]
    /\ n_npid' = [n_npid EXCEPT ![n] = npid]
    /\ UNCHANGED <<account_vars, presence_vars, heartbeat_vars, clock_vars, lock_vars, msg_vars, msg_poll_vars, storage_vars, trophy_vars, friends_data, res, registry_vars, poller_vars, n_signal>>

\* notify_friend_poll, first block: the registry lookup.
notifier_lookup(n) ==
    /\ n_pc[n] = "lookup"
    /\ n_signal' = [n_signal EXCEPT ![n] = notify_lookup(n_npid[n])]
    /\ n_pc' = [n_pc EXCEPT ![n] = "notify"]
    /\ UNCHANGED <<account_vars, presence_vars, heartbeat_vars, clock_vars, lock_vars, msg_vars, msg_poll_vars, storage_vars, trophy_vars, friends_data, inbox_vars, res, registry_vars,
                   poller_vars, n_npid>>

\* notify_friend_poll, second block: notify_one when a signal was found.
notifier_notify(n) ==
    /\ n_pc[n] = "notify"
    /\ notify_one(n_signal[n])
    /\ n_pc' = [n_pc EXCEPT ![n] = "idle"]
    /\ n_signal' = [n_signal EXCEPT ![n] = NoSignal]
    /\ n_npid' = [n_npid EXCEPT ![n] = ""]
    /\ UNCHANGED <<account_vars, presence_vars, heartbeat_vars, clock_vars, lock_vars, msg_vars, msg_poll_vars, storage_vars, trophy_vars, friends_data, inbox_vars, res, registry_vars,
                   p_npid, p_signal, p_budget, p_res>>

(***************************************************************************)
(* account.cpp: the account handlers.  Every handler holds request_mutex   *)
(* and account_mutex, so each is one step.                                 *)
(***************************************************************************)
\* generate_token: 48 random characters, taken here as a token no earlier call
\* returned.
generate_token == "t" \o ToString(generated + 1)

\* The tokens generate_token has returned.
issued_tokens == {"t" \o ToString(i) : i \in 1..generated}

\* A handler left by an exception (nlohmann's type_error on reading a string
\* out of the null entry operator[] made for an absent user): nothing was
\* saved, the response is httplib's error response.
handler_throws ==
    /\ res' = "EXC:type_error"
    /\ UNCHANGED <<account_vars, presence_vars, heartbeat_vars, clock_vars, lock_vars, msg_vars, msg_poll_vars, storage_vars, trophy_vars, friends_data, inbox_vars>>
    /\ no_notify

\* token_cache.erase(token)
cache_erase(cache, token) ==
    [t \in DOMAIN cache |-> IF t = token THEN "" ELSE cache[t]]

\* A change_npid that leaves the cache as it was.
cache_rekey_skipped(cache, token, new_npid) == cache

\* token_cache[token] = new_npid at the end of handle_change_npid.
cache_rekey(cache, token, new_npid) ==
    [t \in DOMAIN cache |-> IF t = token THEN new_npid ELSE cache[t]]

handle_create_account(npid, password) ==
    IF npid = "" \/ Len(npid) < 3 \/ Len(npid) > 16 THEN early_return("ERR:InvalidNPID")
    ELSE IF password = "" THEN early_return("ERR:MissingPassword")
    ELSE IF user_exists(npid) THEN early_return("ERR:UserExists")
    ELSE
        LET token == generate_token IN
        /\ generated < MaxTokens
        /\ generated' = generated + 1
        /\ users' = [users EXCEPT ![npid] =
                        [present |-> TRUE, token |-> token, password |-> password]]
        /\ db_tokens' = [db_tokens EXCEPT ![token] = npid]
        /\ token_cache' = [token_cache EXCEPT ![token] = npid]
        /\ res' = "OK:" \o token
        /\ UNCHANGED <<friends_data, inbox_vars>>
        /\ no_notify

\* What a handler that removes or renames a user directory leaves alone.
no_notify_but_dirs ==
    UNCHANGED <<registry_vars, poller_vars, notifier_vars, presence_vars, heartbeat_vars,
                clock_vars, lock_vars, conv_meta, conv_log, groups_created,
                msg_poll_vars, trophy_vars>>

\* The stored files after fs::remove_all("v3kn/Users/" + npid).
files_removed(npid) ==
    [f \in UserFiles |-> IF f[1] = npid THEN -1 ELSE stored_files[f]]

\* The stored files after fs::rename of the directory of npid to new_npid.
files_renamed(npid, new_npid) ==
    [f \in UserFiles |->
        IF f[1] = new_npid THEN stored_files[<<npid, f[2], f[3]>>]
        ELSE IF f[1] = npid THEN -1
        ELSE stored_files[f]]

\* A rename that moves nothing.
renamed_kept(f, npid, new_npid, empty) == f

\* A per-user file after fs::rename of the directory of npid to new_npid.
renamed(f, npid, new_npid, empty) ==
    [f EXCEPT ![new_npid] = f[npid], ![npid] = empty]

\* After db["users"].erase(npid) the reference user dangles, so the key of
\* token_cache.erase(user["token"]) is read from freed memory: the read may
\* still yield the token, yield a key the cache does not hold, or throw.
DanglingReads == {"token", "other", "throws"}

handle_delete_account(token, password) ==
    LET v == get_valid_npid(token)
        npid == v.npid
    IN
    IF npid = "" THEN early_return(v.err)
    ELSE IF password = "" THEN early_return("ERR:MissingPassword")
    ELSE IF ~user_exists(npid) THEN handler_throws
    ELSE IF users[npid].password # password THEN early_return("ERR:InvalidPassword")
    ELSE
        \E read \in DanglingReads :
            /\ db_tokens' = [db_tokens EXCEPT ![users[npid].token] = ""]
            /\ users' = [users EXCEPT ![npid] = NoUser]
            /\ token_cache' = IF read = "token"
                              THEN cache_erase(token_cache, users[npid].token)
                              ELSE token_cache
            /\ friends_data' = IF read = "throws" THEN friends_data
                               ELSE save_friends(friends_data, npid, EmptyFriends)
            /\ user_convs' = IF read = "throws" THEN user_convs
                             ELSE [user_convs EXCEPT ![npid] = <<>>]
            /\ stored_files' = IF read = "throws" THEN stored_files
                               ELSE files_removed(npid)
            /\ leftover_dirs' = IF read = "throws" THEN leftover_dirs \cup {npid}
                                ELSE leftover_dirs \ {npid}
            /\ quota_used' = [quota_used EXCEPT ![npid] = 0]
            /\ res' = IF read = "throws" THEN "EXC:type_error" ELSE "OK:UserDeleted"
            /\ UNCHANGED <<generated, inbox_vars>>
            /\ no_notify_but_dirs

handle_login(npid, password) ==
    IF npid = "" THEN early_return("ERR:MissingNPID")
    ELSE IF password = "" THEN early_return("ERR:MissingPassword")
    ELSE IF ~user_exists(npid) THEN early_return("ERR:UserNotFound")
    ELSE IF users[npid].password # password THEN early_return("ERR:InvalidPassword")
    ELSE
        /\ token_cache' = [token_cache EXCEPT ![users[npid].token] = npid]
        /\ res' = "OK:" \o users[npid].token
        /\ UNCHANGED <<users, db_tokens, generated, friends_data, inbox_vars>>
        /\ no_notify

\* fs::rename moves the user's directory, friends.json with it.
handle_change_npid(token, new_npid) ==
    LET v == get_valid_npid(token)
        npid == v.npid
    IN
    IF npid = "" THEN early_return(v.err)
    ELSE IF new_npid = "" THEN early_return("ERR:MissingNPID")
    ELSE IF user_exists(new_npid) THEN early_return("ERR:UserExists")
    ELSE IF ~user_exists(npid) THEN handler_throws
    ELSE
        LET user_token == users[npid].token
            \* fs::rename throws when the directory of new_npid holds files.
            rename_throws == new_npid \in leftover_dirs
        IN
        /\ users' = [users EXCEPT ![new_npid] = users[npid], ![npid] = NoUser]
        /\ quota_used' = renamed(quota_used, npid, new_npid, 0)
        /\ db_tokens' = [db_tokens EXCEPT ![user_token] = new_npid]
        /\ token_cache' = cache_rekey(token_cache, user_token, new_npid)
        /\ IF rename_throws
           THEN /\ leftover_dirs' = leftover_dirs \cup {npid}
                /\ res' = "EXC:filesystem_error"
                /\ UNCHANGED <<friends_data, user_convs, stored_files>>
           ELSE /\ friends_data' = renamed(friends_data, npid, new_npid, EmptyFriends)
                /\ user_convs' = renamed(user_convs, npid, new_npid, <<>>)
                /\ stored_files' = files_renamed(npid, new_npid)
                /\ leftover_dirs' = leftover_dirs \ {npid}
                /\ res' = "OK:NPIDChanged"
        /\ UNCHANGED <<generated, inbox_vars>>
        /\ no_notify_but_dirs

handle_change_password(token, old_password, new_password) ==
    LET v == get_valid_npid(token)
        npid == v.npid
    IN
    IF npid = "" THEN early_return(v.err)
    ELSE IF old_password = "" THEN early_return("ERR:MissingOldPassword")
    ELSE IF new_password = "" THEN early_return("ERR:MissingNewPassword")
    ELSE IF old_password = new_password THEN early_return("ERR:SamePassword")
    ELSE IF ~user_exists(npid) THEN handler_throws
    ELSE IF users[npid].password # old_password THEN early_return("ERR:InvalidPassword")
    ELSE
        LET old_token == users[npid].token
            new_token == generate_token
        IN
        /\ generated < MaxTokens
        /\ generated' = generated + 1
        /\ users' = [users EXCEPT ![npid] =
                        [present |-> TRUE, token |-> new_token, password |-> new_password]]
        /\ db_tokens' = [db_tokens EXCEPT ![old_token] = "", ![new_token] = npid]
        /\ token_cache' = [cache_erase(token_cache, old_token) EXCEPT ![new_token] = npid]
        /\ res' = "OK:" \o new_token
        /\ UNCHANGED <<friends_data, inbox_vars>>
        /\ no_notify

(***************************************************************************)
(* friend.cpp: presence.  handle_friend_presence takes no request_mutex:   *)
(* its steps are the block that holds online_users_mutex, the decision and *)
(* fan-out after it, and the final erase from pending_online_poll.  The    *)
(* heartbeat timestamps are kept as an age: "fresh" (30 s old at most),    *)
(* "stale" (older), "absent" (no entry).                                   *)
(***************************************************************************)
\* The inboxes after a status_changed event about target_npid was appended
\* to the inbox of every entry of targets, in order.
RECURSIVE status_events_pushed(_, _, _, _)
status_events_pushed(events, targets, target_npid, is_online) ==
    IF targets = <<>> THEN events
    ELSE status_events_pushed(
            [events EXCEPT ![Head(targets)] = Append(@, StatusEvent(target_npid, is_online))],
            Tail(targets), target_npid, is_online)

\* notify_friend_poll for each of npids: for every signal found, one handler
\* blocked on it resumes its loop.
notify_friend_polls(npids) ==
    \E woken \in SUBSET Pollers :
        /\ \A p \in woken : \E x \in npids : p \in blocked_on(notify_lookup(x))
        /\ \A x \in npids :
              blocked_on(notify_lookup(x)) # {} =>
                  Cardinality(woken \cap blocked_on(notify_lookup(x))) = 1
        /\ p_pc' = [p \in Pollers |-> IF p \in woken THEN "drain" ELSE p_pc[p]]

\* push_status_event_to_friends: the friends list is loaded, then under
\* online_users_mutex every friend with a heartbeat entry gets the event and a
\* notify.  The journal is not rewritten.
push_status_event_to_friends(npid, is_online) ==
    LET user_friends == load_friends_data(npid).friends
        targets == SelectSeq(user_friends, LAMBDA f : online_users[f] # "absent")
        pushed == status_events_pushed(friend_events, targets, npid, is_online)
    IN
    /\ \A f \in DOMAIN pushed : Len(pushed[f]) <= MaxInbox
    /\ friend_events' = pushed
    /\ UNCHANGED events_disk
    /\ notify_friend_polls({targets[i] : i \in 1..Len(targets)})

\* Lines 1138-1190, online_users_mutex held.
presence_update(h, token, status, now_playing) ==
    LET v == get_valid_npid(token)
        npid == v.npid
        old_status == presence_status[npid]
        old_online == old_status # "offline"
        old_now_playing == online_now_playing[npid]
        heartbeat == status \in {"online", "not_available"}
        status_changed == old_status # status
        now_playing_changed == heartbeat /\ old_online /\ old_now_playing # now_playing
    IN
    /\ h_pc[h] = "idle"
    /\ IF npid = "" \/ status \notin {"online", "not_available", "offline"}
       THEN \* ERR:MissingToken, ERR:InvalidToken, ERR:MissingStatus, ERR:InvalidStatus
            UNCHANGED <<presence_vars, heartbeat_vars>>
       ELSE /\ online_users' = [online_users EXCEPT ![npid] =
                                    IF heartbeat THEN "fresh" ELSE "absent"]
            /\ online_now_playing' = [online_now_playing EXCEPT ![npid] =
                                          IF heartbeat THEN now_playing ELSE ""]
            /\ presence_status' = [presence_status EXCEPT ![npid] = status]
            /\ pending_online_poll' =
                  IF status = "not_available" /\ old_status = "offline"
                  THEN pending_online_poll \cup {npid}
                  ELSE IF status = "online" THEN pending_online_poll
                  ELSE pending_online_poll \ {npid}
            /\ last_status_change' =
                  IF status_changed \/ now_playing_changed
                  THEN last_status_change \cup {npid} ELSE last_status_change
            /\ h_pc' = [h_pc EXCEPT ![h] = "notify"]
            /\ h_npid' = [h_npid EXCEPT ![h] = npid]
            /\ h_status' = [h_status EXCEPT ![h] = status]
            /\ h_old_status' = [h_old_status EXCEPT ![h] = old_status]
            /\ h_status_changed' = [h_status_changed EXCEPT ![h] = status_changed]
            /\ h_pending' = [h_pending EXCEPT ![h] = npid \in pending_online_poll]
    /\ UNCHANGED <<account_vars, friends_data, inbox_vars, res, registry_vars, poller_vars,
                   notifier_vars>>

\* The handler's locals once it has returned ("OK").
heartbeat_returns(h) ==
    /\ h_pc' = [h_pc EXCEPT ![h] = "idle"]
    /\ h_npid' = [h_npid EXCEPT ![h] = ""]
    /\ h_status' = [h_status EXCEPT ![h] = ""]
    /\ h_old_status' = [h_old_status EXCEPT ![h] = "offline"]
    /\ h_status_changed' = [h_status_changed EXCEPT ![h] = FALSE]
    /\ h_pending' = [h_pending EXCEPT ![h] = FALSE]

\* Lines 1193-1199: pending_online_poll is read with no lock held, then the
\* fan-out runs under online_users_mutex.
presence_notify(h) ==
    LET npid == h_npid[h]
        should_poll == h_old_status[h] = "offline" \/ npid \in pending_online_poll
    IN
    /\ h_pc[h] = "notify"
    /\ IF h_status_changed[h] /\ h_status[h] = "online"
       THEN /\ IF should_poll
               THEN push_status_event_to_friends(npid, TRUE)
               ELSE UNCHANGED <<inbox_vars, p_pc>>
            /\ h_pc' = [h_pc EXCEPT ![h] = "clear"]
            /\ UNCHANGED <<h_npid, h_status, h_old_status, h_status_changed, h_pending>>
       ELSE /\ heartbeat_returns(h)
            /\ UNCHANGED <<inbox_vars, p_pc>>
    /\ UNCHANGED <<account_vars, friends_data, res, registry_vars, p_npid, p_signal, p_budget,
                   p_res, notifier_vars, presence_vars, clock_vars, lock_vars, msg_vars, msg_poll_vars, storage_vars, trophy_vars>>

\* Line 1200: pending_online_poll.erase(npid) with no lock held, then "OK".
presence_clear(h) ==
    /\ h_pc[h] = "clear"
    /\ pending_online_poll' = pending_online_poll \ {h_npid[h]}
    /\ heartbeat_returns(h)
    /\ UNCHANGED <<account_vars, friends_data, inbox_vars, res, registry_vars, poller_vars,
                   notifier_vars, online_users, online_now_playing, presence_status,
                   last_status_change, clock_vars, lock_vars, msg_vars, msg_poll_vars, storage_vars, trophy_vars>>

\* More than 30 s pass since the last heartbeat of npid.
heartbeat_ages(npid) ==
    /\ online_users[npid] = "fresh"
    /\ online_users' = [online_users EXCEPT ![npid] = "stale"]
    /\ UNCHANGED <<account_vars, friends_data, inbox_vars, res, registry_vars, poller_vars,
                   notifier_vars, online_now_playing, presence_status,
                   pending_online_poll, last_status_change, heartbeat_vars>>

\* monitor_online_users, one pass that finds timed-out users: their entries
\* are erased and the change is timestamped; no event is pushed.
monitor_online_users ==
    LET timed_out_users == {n \in DOMAIN online_users : online_users[n] = "stale"} IN
    /\ timed_out_users # {}
    /\ online_users' = [n \in DOMAIN online_users |->
                          IF n \in timed_out_users THEN "absent" ELSE online_users[n]]
    /\ online_now_playing' = [n \in DOMAIN online_now_playing |->
                          IF n \in timed_out_users THEN "" ELSE online_now_playing[n]]
    /\ presence_status' = [n \in DOMAIN presence_status |->
                          IF n \in timed_out_users THEN "offline" ELSE presence_status[n]]
    /\ pending_online_poll' = pending_online_poll \ timed_out_users
    /\ last_status_change' = last_status_change \cup timed_out_users
    /\ UNCHANGED <<account_vars, friends_data, inbox_vars, res, registry_vars, poller_vars,
                   notifier_vars, heartbeat_vars>>

(***************************************************************************)
(* The sweeper's clock.  Time is counted in ticks of 1/TicksPerSecond s;   *)
(* std::time(0) is the whole number of seconds that have passed, so a       *)
(* timestamp drops the ticks of the second it was taken in.                 *)
(***************************************************************************)
\* monitor_online_users: const int64_t timeout_threshold = 30.
timeout_threshold == 30

\* now - last_presence as the sweeper computes it, for an entry written `age`
\* ticks ago when `sub` ticks of the current second have passed.
seconds_since(age, sub) ==
    LET written_sub == (sub + age * (TicksPerSecond - 1)) % TicksPerSecond
    IN (age - sub + written_sub) \div TicksPerSecond

\* The age class the sweeper's test (now - last_presence) > timeout_threshold
\* puts an entry in.
age_class(age, sub) ==
    IF age = -1 THEN "absent"
    ELSE IF seconds_since(age, sub) > timeout_threshold THEN "stale" ELSE "fresh"

\* One tick passes.  No handler is half-way, the sweeper's wait_for has not run
\* out (it wakes on time) and Bob's client is not late with its heartbeat.
time_passes ==
    LET sub == (subsecond + 1) % TicksPerSecond
        aged == [n \in Names |-> IF heartbeat_age[n] = -1 THEN -1 ELSE heartbeat_age[n] + 1]
    IN
    /\ \A h \in Heartbeats : h_pc[h] = "idle"
    /\ monitor_timer # 0
    /\ heartbeat_age["Bob"] < HeartbeatPeriod * TicksPerSecond
    /\ \A n \in Names : heartbeat_age[n] <= 2 * timeout_threshold * TicksPerSecond
    /\ subsecond' = sub
    /\ heartbeat_age' = aged
    /\ monitor_timer' = IF monitor_timer = -1 THEN -1 ELSE monitor_timer - 1
    /\ online_users' = [n \in Names |-> age_class(aged[n], sub)]
    /\ UNCHANGED <<account_vars, friends_data, inbox_vars, res, registry_vars, poller_vars,
                   notifier_vars, online_now_playing, presence_status,
                   pending_online_poll, last_status_change, heartbeat_vars, lock_vars, msg_vars, msg_poll_vars, storage_vars, trophy_vars>>

\* handle_friend_presence at a moment of the clock: the entry's timestamp is
\* taken now, and the first present user wakes the sweeper (lines 1169-1172),
\* out of its wait for a user into wait_for, or out of wait_for into a pass.
presence_update_at(h, token, status) ==
    LET npid == get_valid_npid(token).npid
        accepted == npid # "" /\ status \in {"online", "not_available", "offline"}
        heartbeat == status \in {"online", "not_available"}
    IN
    /\ presence_update(h, token, status, "")
    /\ heartbeat_age' = IF accepted
                        THEN [heartbeat_age EXCEPT ![npid] = IF heartbeat THEN 0 ELSE -1]
                        ELSE heartbeat_age
    /\ monitor_timer' =
          IF accepted /\ heartbeat
             /\ Cardinality({n \in Names : n = npid \/ online_users[n] # "absent"}) = 1
          THEN IF monitor_timer = -1 THEN timeout_threshold * TicksPerSecond ELSE 0
          ELSE monitor_timer
    /\ UNCHANGED <<subsecond, lock_vars, msg_vars, msg_poll_vars, storage_vars, trophy_vars>>

\* monitor_online_users, one pass when wait_for returns: entries older than
\* the threshold are erased, then the sweeper waits again, for a user if the
\* table is empty and for timeout_threshold seconds otherwise.
monitor_pass ==
    LET timed_out_users == {n \in Names : online_users[n] = "stale"} IN
    /\ monitor_timer = 0
    /\ IF timed_out_users # {}
       THEN monitor_online_users
       ELSE UNCHANGED <<account_vars, friends_data, inbox_vars, res, registry_vars,
                        poller_vars, notifier_vars, presence_vars, heartbeat_vars>>
    /\ heartbeat_age' = [n \in Names |->
                            IF n \in timed_out_users THEN -1 ELSE heartbeat_age[n]]
    /\ monitor_timer' = IF \A n \in Names : online_users[n] \in {"absent", "stale"}
                        THEN -1 ELSE timeout_threshold * TicksPerSecond
    /\ UNCHANGED <<subsecond, lock_vars, msg_vars, msg_poll_vars, storage_vars, trophy_vars>>

(***************************************************************************)
(* Mutexes.  A routine is the sequence of lock, unlock and shared-table     *)
(* operations a handler or the sweeper performs, in program order; a        *)
(* lock_guard unlocks where its scope ends.                                 *)
(***************************************************************************)
\* The documented acquisition order, outermost first.
LockOrder == <<"request_mutex", "account_mutex", "online_users_mutex", "friend_events_mutex",
               "friend_poll_signals_mutex", "friends_cv_mutex">>
Mutexes == {LockOrder[i] : i \in 1..Len(LockOrder)}
rank(mutex) == CHOOSE i \in 1..Len(LockOrder) : LockOrder[i] = mutex

\* Handler threads, and the sweeper's thread after them.
LockThreads == 1..(NumLockThreads + 1)
SweeperThread == NumLockThreads + 1

lock_op(mutex) == [op |-> "lock", on |-> mutex]
unlock_op(mutex) == [op |-> "unlock", on |-> mutex]
access_op(table) == [op |-> "access", on |-> table]

\* push_friend_event / push_friend_status_event, then notify_friend_poll.
push_and_notify_ops ==
    <<lock_op("friend_events_mutex"), unlock_op("friend_events_mutex"),
      lock_op("friend_poll_signals_mutex"), unlock_op("friend_poll_signals_mutex")>>

\* handle_friend_add, the path that stores a request and notifies the target.
handle_friend_add_ops ==
    <<lock_op("request_mutex"), lock_op("account_mutex")>> \o push_and_notify_ops \o
    <<unlock_op("account_mutex"), unlock_op("request_mutex")>>

\* handle_friend_profile of a friend: fill_presence_fields reads the tables.
handle_friend_profile_ops ==
    <<lock_op("request_mutex"), lock_op("account_mutex"), lock_op("online_users_mutex"),
      access_op("presence_status"), access_op("online_now_playing"),
      unlock_op("online_users_mutex"), unlock_op("account_mutex"),
      unlock_op("request_mutex")>>

\* handle_friend_poll: get_friend_poll_signal, the waiter's constructor, one
\* drain, one wait on the signal, the waiter's destructor.
handle_friend_poll_ops ==
    <<lock_op("friend_poll_signals_mutex"), unlock_op("friend_poll_signals_mutex"),
      lock_op("friend_poll_signals_mutex"), unlock_op("friend_poll_signals_mutex"),
      lock_op("friend_events_mutex"), unlock_op("friend_events_mutex"),
      lock_op("friends_cv_mutex"), unlock_op("friends_cv_mutex"),
      lock_op("friend_poll_signals_mutex"), unlock_op("friend_poll_signals_mutex")>>

\* handle_friend_presence, an online heartbeat that changes the status: the
\* update block, the test of pending_online_poll, push_status_event_to_friends
\* with one present friend, the erase from pending_online_poll.
handle_friend_presence_ops ==
    <<lock_op("online_users_mutex"),
      access_op("presence_status"), access_op("online_now_playing"),
      access_op("online_users"), access_op("pending_online_poll"),
      access_op("last_status_change"),
      unlock_op("online_users_mutex"),
      access_op("pending_online_poll"),
      lock_op("online_users_mutex"), access_op("online_users")>> \o push_and_notify_ops \o
    <<unlock_op("online_users_mutex"),
      access_op("pending_online_poll")>>

\* handle_friend_search.
handle_friend_search_ops ==
    <<lock_op("account_mutex"), unlock_op("account_mutex")>>

\* monitor_online_users, a pass that finds timed-out users: line 187 unlocks
\* before the two cleanups.
monitor_online_users_ops_timed_out ==
    <<lock_op("online_users_mutex"),
      access_op("online_users"), access_op("online_now_playing"),
      access_op("presence_status"), access_op("pending_online_poll"),
      access_op("last_status_change"),
      unlock_op("online_users_mutex"),
      access_op("last_status_change"),
      lock_op("friend_events_mutex"), unlock_op("friend_events_mutex")>>

\* A sweeper that took friend_events_mutex before online_users_mutex.
monitor_online_users_ops_events_first ==
    <<lock_op("friend_events_mutex"), lock_op("online_users_mutex"),
      access_op("online_users"), access_op("last_status_change"),
      unlock_op("online_users_mutex"), unlock_op("friend_events_mutex")>>

\* monitor_online_users, a pass that finds none: the lock is held to the end
\* of the iteration.
monitor_online_users_ops_quiet ==
    <<lock_op("online_users_mutex"),
      access_op("online_users"), access_op("last_status_change"),
      lock_op("friend_events_mutex"), unlock_op("friend_events_mutex"),
      unlock_op("online_users_mutex")>>

HandlerRoutines == {"handle_friend_add", "handle_friend_profile", "handle_friend_poll",
                    "handle_friend_presence", "handle_friend_search"}
SweeperRoutines == {"monitor_online_users timed out", "monitor_online_users quiet"}

ops_of(routine) ==
    CASE routine = "handle_friend_add" -> handle_friend_add_ops
      [] routine = "handle_friend_profile" -> handle_friend_profile_ops
      [] routine = "handle_friend_poll" -> handle_friend_poll_ops
      [] routine = "handle_friend_presence" -> handle_friend_presence_ops
      [] routine = "handle_friend_search" -> handle_friend_search_ops
      [] routine = "monitor_online_users timed out" -> monitor_online_users_ops_timed_out
      [] routine = "monitor_online_users quiet" -> monitor_online_users_ops_quiet
      [] OTHER -> <<>>

\* The operation thread t is about to do.
next_op(t) ==
    IF lk_pc[t] \in 1..Len(ops_of(lk_routine[t]))
    THEN ops_of(lk_routine[t])[lk_pc[t]]
    ELSE [op |-> "none", on |-> ""]

held_by(t) == {m \in Mutexes : mutex_owner[m] = t}

lock_frame ==
    UNCHANGED <<account_vars, friends_data, inbox_vars, res, registry_vars, poller_vars,
                notifier_vars, presence_vars, heartbeat_vars, clock_vars, msg_vars, msg_poll_vars, storage_vars, trophy_vars>>

routine_starts(t, routine) ==
    /\ lk_routine[t] = ""
    /\ lk_routine' = [lk_routine EXCEPT ![t] = routine]
    /\ UNCHANGED <<mutex_owner, lk_pc>>
    /\ lock_frame

\* std::mutex::lock: blocks until nobody holds the mutex.
acquires(t) ==
    /\ next_op(t).op = "lock"
    /\ mutex_owner[next_op(t).on] = 0
    /\ mutex_owner' = [mutex_owner EXCEPT ![next_op(t).on] = t]
    /\ lk_pc' = [lk_pc EXCEPT ![t] = @ + 1]
    /\ UNCHANGED lk_routine
    /\ lock_frame

releases(t) ==
    /\ next_op(t).op = "unlock"
    /\ mutex_owner' = [mutex_owner EXCEPT ![next_op(t).on] = 0]
    /\ lk_pc' = [lk_pc EXCEPT ![t] = @ + 1]
    /\ UNCHANGED lk_routine
    /\ lock_frame

accesses(t) ==
    /\ next_op(t).op = "access"
    /\ lk_pc' = [lk_pc EXCEPT ![t] = @ + 1]
    /\ UNCHANGED <<mutex_owner, lk_routine>>
    /\ lock_frame

routine_returns(t) ==
    /\ lk_routine[t] # ""
    /\ lk_pc[t] > Len(ops_of(lk_routine[t]))
    /\ lk_routine' = [lk_routine EXCEPT ![t] = ""]
    /\ lk_pc' = [lk_pc EXCEPT ![t] = 1]
    /\ UNCHANGED mutex_owner
    /\ lock_frame

(***************************************************************************)
(* messages.cpp: conversations.  Every handler holds request_mutex, so     *)
(* each is one step.  A conversation's files live in the directory         *)
(* v3kn/conversations/<conversation_id>; a user's index is the list of     *)
(* conversation IDs in v3kn/Users/<npid>/conversations.json.               *)
(***************************************************************************)
NoConversation == [exists |-> FALSE, participants |-> <<>>, creator |-> ""]

\* std::sort on NPIDs: the names in ascending order.
NameOrder == <<"Ann", "Bob", "Cid", "Zoe", "ab">>
name_rank(n) == CHOOSE i \in 1..Len(NameOrder) : NameOrder[i] = n
sorted_pair(a, b) == IF name_rank(a) <= name_rank(b) THEN <<a, b>> ELSE <<b, a>>

\* "group_" + hash of the names and the millisecond clock: a value no earlier
\* call returned.
GroupIDs == [k \in 1..(MaxGroups + 1) |-> "group_" \o ToString(k)]

\* generate_conversation_id
generate_conversation_id(participants) ==
    IF Len(participants) = 2
    THEN sorted_pair(participants[1], participants[2])[1] \o "_"
             \o sorted_pair(participants[1], participants[2])[2]
    ELSE GroupIDs[groups_created + 1]

\* get_conversation_dir: the directory fs::path("v3kn") / "conversations" /
\* conversation_id names; a trailing separator names the same directory.
get_conversation_dir(conversation_id) ==
    IF Len(conversation_id) > 1
       /\ SubSeq(conversation_id, Len(conversation_id), Len(conversation_id)) = "/"
    THEN SubSeq(conversation_id, 1, Len(conversation_id) - 1)
    ELSE conversation_id

\* conversation_id values a request can carry.
ReqConversationIDs == {"Ann_Bob", "Ann_Bob/", GroupIDs[1]}

\* The IDs create can generate for the participants lists of the requests.
CreatedIDs ==
    {generate_conversation_id(<<a, b>>) : a \in PollNPIDs, b \in PollNPIDs}
        \cup {GroupIDs[k] : k \in DOMAIN GroupIDs}

ConversationDirs == {get_conversation_dir(id) : id \in CreatedIDs \cup ReqConversationIDs}

load_conversation_metadata(conversation_id) == conv_meta[get_conversation_dir(conversation_id)]

\* is_user_in_conversation
is_user_in_conversation(conversation_id, npid) ==
    has_friend(load_conversation_metadata(conversation_id).participants, npid)

\* std::find on a user's index.
in_index(user_conversations, conversation_id) ==
    \E i \in 1..Len(user_conversations) : user_conversations[i] = conversation_id

\* The indexes after conversation_id was appended to the index of each of
\* participants that did not hold it.
RECURSIVE indexes_with(_, _, _)
indexes_with(indexes, participants, conversation_id) ==
    IF participants = <<>> THEN indexes
    ELSE LET p == Head(participants) IN
         indexes_with(IF in_index(indexes[p], conversation_id) THEN indexes
                      ELSE [indexes EXCEPT ![p] = Append(@, conversation_id)],
                      Tail(participants), conversation_id)

\* std::remove on a user's index: every entry equal to conversation_id goes.
index_without(user_conversations, conversation_id) ==
    SelectSeq(user_conversations, LAMBDA c : c # conversation_id)

\* The indexes after conversation_id was removed from the index of each of
\* participants.
indexes_without(indexes, participants, conversation_id) ==
    [n \in DOMAIN indexes |->
        IF has_friend(participants, n)
        THEN index_without(indexes[n], conversation_id) ELSE indexes[n]]

\* messages_cv.notify_all(): a poll blocked in wait_for resumes its loop; a
\* poll that is anywhere else does not learn of it.
messages_cv_notify_all ==
    /\ mp_pc' = IF mp_pc = "wait" THEN "scan" ELSE mp_pc
    /\ UNCHANGED <<msg_clock, mp_npid, mp_since, mp_todo, mp_found, mp_budget, mp_res>>

\* What a messages handler leaves alone.
msg_frame ==
    UNCHANGED <<account_vars, friends_data, inbox_vars, registry_vars, poller_vars,
                notifier_vars, presence_vars, heartbeat_vars, clock_vars, lock_vars,
                storage_vars, trophy_vars>>

handle_messages_create(token, req_participants, message) ==
    LET v == get_valid_npid(token)
        npid == v.npid
        participants == <<npid>> \o SelectSeq(req_participants,
                                              LAMBDA p : p # "" /\ p # npid)
        missing == SelectSeq(participants, LAMBDA p : ~user_exists(p))
        conversation_id == generate_conversation_id(participants)
        dir == get_conversation_dir(conversation_id)
    IN
    IF npid = "" THEN early_return(v.err)
    ELSE IF message = "" THEN early_return("ERR:InvalidMessage")
    ELSE IF Len(participants) < 2 THEN early_return("ERR:NotEnoughParticipants")
    ELSE IF missing # <<>> THEN early_return("ERR:ParticipantNotFound:" \o Head(missing))
    ELSE IF Len(participants) # 2 /\ groups_created >= MaxGroups THEN FALSE
    ELSE IF load_conversation_metadata(conversation_id).exists
         THEN early_return("ERR:ConversationAlreadyExists")
    ELSE
        /\ conv_meta' = [conv_meta EXCEPT ![dir] =
                [exists |-> TRUE, participants |-> participants, creator |-> npid]]
        /\ conv_log' = [conv_log EXCEPT ![dir] =
                <<[from |-> npid, msg |-> message, timestamp |-> msg_clock]>>]
        /\ user_convs' = indexes_with(user_convs, participants, conversation_id)
        /\ groups_created' = IF Len(participants) = 2 THEN groups_created
                             ELSE groups_created + 1
        /\ res' = "OK:" \o conversation_id
        /\ UNCHANGED leftover_dirs
        /\ messages_cv_notify_all
        /\ msg_frame

handle_messages_add_participant(token, conversation_id, new_participant) ==
    LET v == get_valid_npid(token)
        npid == v.npid
        metadata == load_conversation_metadata(conversation_id)
        dir == get_conversation_dir(conversation_id)
    IN
    IF npid = "" THEN early_return(v.err)
    ELSE IF new_participant = "" THEN early_return("ERR:EmptyParticipant")
    ELSE IF ~user_exists(new_participant) THEN early_return("ERR:ParticipantNotFound")
    ELSE IF ~metadata.exists THEN early_return("ERR:ConversationNotFound")
    ELSE IF ~is_user_in_conversation(conversation_id, npid)
         THEN early_return("ERR:NotInConversation")
    ELSE IF is_user_in_conversation(conversation_id, new_participant)
         THEN early_return("ERR:AlreadyInConversation")
    ELSE
        /\ conv_meta' = [conv_meta EXCEPT ![dir].participants = Append(@, new_participant)]
        /\ user_convs' = indexes_with(user_convs, <<new_participant>>, conversation_id)
        /\ res' = "OK:ParticipantAdded"
        /\ UNCHANGED <<conv_log, groups_created, leftover_dirs>>
        /\ messages_cv_notify_all
        /\ msg_frame

handle_messages_leave(token, conversation_id) ==
    LET v == get_valid_npid(token)
        npid == v.npid
        metadata == load_conversation_metadata(conversation_id)
        dir == get_conversation_dir(conversation_id)
    IN
    IF npid = "" THEN early_return(v.err)
    ELSE IF ~metadata.exists THEN early_return("ERR:ConversationNotFound")
    ELSE IF ~is_user_in_conversation(conversation_id, npid)
         THEN early_return("ERR:NotInConversation")
    ELSE
        /\ conv_meta' = [conv_meta EXCEPT ![dir].participants =
                SelectSeq(@, LAMBDA p : p # npid)]
        /\ user_convs' = [user_convs EXCEPT ![npid] = index_without(@, conversation_id)]
        /\ res' = "OK:LeftConversation"
        /\ UNCHANGED <<conv_log, groups_created, leftover_dirs>>
        /\ messages_cv_notify_all
        /\ msg_frame

\* A test that lets every participant through.
is_member(metadata, npid) == has_friend(metadata.participants, npid)

\* Lines 638-643: metadata has a creator field and it names the requester.
is_creator(metadata, npid) == metadata.creator = npid

\* Lines 645-657 load and save the index of every name in participants, and
\* get_user_conversations_path creates the directory it is in: a name that
\* is no account gets a directory with a conversations.json.
absent_participants(participants) ==
    {participants[i] : i \in 1..Len(participants)} \ {n \in Names : user_exists(n)}

handle_messages_delete_conversation(token, conversation_id) ==
    LET v == get_valid_npid(token)
        npid == v.npid
        metadata == load_conversation_metadata(conversation_id)
        dir == get_conversation_dir(conversation_id)
    IN
    IF npid = "" THEN early_return(v.err)
    ELSE IF ~metadata.exists THEN early_return("ERR:ConversationNotFound")
    ELSE IF ~is_creator(metadata, npid) THEN early_return("ERR:NotCreator")
    ELSE
        /\ user_convs' = indexes_without(user_convs, metadata.participants, conversation_id)
        /\ conv_meta' = [conv_meta EXCEPT ![dir] = NoConversation]
        /\ conv_log' = [conv_log EXCEPT ![dir] = <<>>]
        /\ leftover_dirs' = leftover_dirs \cup absent_participants(metadata.participants)
        /\ res' = "OK:ConversationDeleted"
        /\ UNCHANGED groups_created
        /\ messages_cv_notify_all
        /\ msg_frame

\* load_conversation_messages
load_conversation_messages(conversation_id) == conv_log[get_conversation_dir(conversation_id)]

handle_messages_send(token, conversation_id, message) ==
    LET v == get_valid_npid(token)
        npid == v.npid
        dir == get_conversation_dir(conversation_id)
    IN
    IF npid = "" THEN early_return(v.err)
    ELSE IF conversation_id = "" THEN early_return("ERR:MissingConversationID")
    ELSE IF message = "" THEN early_return("ERR:MissingMessage")
    ELSE IF ~load_conversation_metadata(conversation_id).exists
         THEN early_return("ERR:ConversationNotFound")
    ELSE IF ~is_user_in_conversation(conversation_id, npid)
         THEN early_return("ERR:NotInConversation")
    ELSE
        /\ Len(load_conversation_messages(conversation_id)) < MaxLog
        /\ conv_log' = [conv_log EXCEPT ![dir] =
                Append(@, [from |-> npid, msg |-> message, timestamp |-> msg_clock])]
        /\ res' = "OK:MessageSent"
        /\ UNCHANGED <<conv_meta, user_convs, groups_created, leftover_dirs>>
        /\ messages_cv_notify_all
        /\ msg_frame

\* The position of the first entry of messages whose timestamp is timestamp
\* (0: none), whoever sent it.
first_with_timestamp(messages, timestamp) ==
    IF \E i \in 1..Len(messages) : messages[i].timestamp = timestamp
    THEN CHOOSE i \in 1..Len(messages) :
            /\ messages[i].timestamp = timestamp
            /\ \A j \in 1..(i - 1) : messages[j].timestamp # timestamp
    ELSE 0

\* messages.erase(it)
erase_at(messages, i) ==
    SubSeq(messages, 1, i - 1) \o SubSeq(messages, i + 1, Len(messages))

\* The loop of handle_messages_delete over the requested timestamps: the
\* first entry with the timestamp is erased when the requester sent it, and
\* ends the search for that timestamp when somebody else did.
RECURSIVE delete_by_timestamps(_, _, _)
delete_by_timestamps(messages, timestamps, npid) ==
    IF timestamps = <<>> THEN [messages |-> messages, deleted_count |-> 0]
    ELSE LET i == first_with_timestamp(messages, Head(timestamps)) IN
         IF i = 0 \/ messages[i].from # npid
         THEN delete_by_timestamps(messages, Tail(timestamps), npid)
         ELSE LET rest == delete_by_timestamps(erase_at(messages, i),
                                               Tail(timestamps), npid)
              IN [messages |-> rest.messages, deleted_count |-> rest.deleted_count + 1]

handle_messages_delete(token, conversation_id, timestamps) ==
    LET v == get_valid_npid(token)
        npid == v.npid
        dir == get_conversation_dir(conversation_id)
        deleted == delete_by_timestamps(load_conversation_messages(conversation_id),
                                        timestamps, npid)
    IN
    IF npid = "" THEN early_return(v.err)
    ELSE IF conversation_id = "" THEN early_return("ERR:EmptyConversationID")
    ELSE IF timestamps = <<>> THEN early_return("ERR:NoTimestamps")
    ELSE IF ~load_conversation_metadata(conversation_id).exists
         THEN early_return("ERR:ConversationNotFound")
    ELSE IF ~is_user_in_conversation(conversation_id, npid)
         THEN early_return("ERR:NotInConversation")
    ELSE IF deleted.deleted_count = 0 THEN early_return("ERR:NoMessagesDeleted")
    ELSE
        /\ conv_log' = [conv_log EXCEPT ![dir] = deleted.messages]
        /\ res' = "OK:MessagesDeleted:" \o ToString(deleted.deleted_count)
        /\ UNCHANGED <<conv_meta, user_convs, groups_created, leftover_dirs>>
        /\ messages_cv_notify_all
        /\ msg_frame

(***************************************************************************)
(* messages.cpp: handle_messages_poll, which takes no request_mutex.  Its   *)
(* steps are the reads of single files and the wait on messages_cv; a wait  *)
(* ends by notify_all, by a spurious wakeup or by its timeout.              *)
(***************************************************************************)
\* What a step of the messages poll leaves alone.
poll_frame ==
    UNCHANGED <<account_vars, friends_data, inbox_vars, res, registry_vars, poller_vars,
                notifier_vars, presence_vars, heartbeat_vars, clock_vars, lock_vars,
                msg_vars, msg_clock, storage_vars, trophy_vars>>

\* since values a poll request can carry ("" is a missing parameter, "x" is
\* no number).
SinceStrings == {"", "x"} \cup {ToString(k) : k \in 0..MaxMsgClock}

\* std::stoll on the numerals of SinceStrings.
stoll(str) == CHOOSE k \in 0..MaxMsgClock : ToString(k) = str

\* Lines 775-796: authentication and the since parameter.
messages_poll_begin(token, since_str) ==
    LET v == get_valid_npid(token) IN
    /\ mp_pc = "idle"
    /\ IF v.npid = ""
       THEN /\ mp_res' = v.err
            /\ mp_pc' = "done"
            /\ UNCHANGED <<mp_npid, mp_since, mp_budget>>
       ELSE IF since_str = "x"
       THEN /\ mp_res' = "ERR:InvalidTimestamp"
            /\ mp_pc' = "done"
            /\ UNCHANGED <<mp_npid, mp_since, mp_budget>>
       ELSE /\ mp_res' = ""
            /\ mp_pc' = "scan"
            /\ mp_npid' = v.npid
            /\ mp_since' = IF since_str = "" THEN 0 ELSE stoll(since_str)
            /\ mp_budget' = TRUE
    /\ UNCHANGED <<mp_todo, mp_found>>
    /\ poll_frame

\* Line 803: a pass of the loop starts with an empty new_messages and reads
\* the user's index.
messages_poll_scan ==
    /\ mp_pc = "scan"
    /\ mp_todo' = user_convs[mp_npid]
    /\ mp_found' = <<>>
    /\ mp_pc' = "read"
    /\ UNCHANGED <<mp_npid, mp_since, mp_budget, mp_res>>
    /\ poll_frame

\* Lines 805-820: the messages of one conversation of the index that are
\* newer than since and were not sent by the requester.
received_since(messages, since_timestamp, npid) ==
    SelectSeq(messages, LAMBDA msg : msg.timestamp > since_timestamp /\ msg.from # npid)

\* Lines 805-820: the log of the next entry of the index is read.
messages_poll_read ==
    /\ mp_pc = "read"
    /\ mp_todo # <<>>
    /\ mp_found' = mp_found \o received_since(load_conversation_messages(Head(mp_todo)),
                                              mp_since, mp_npid)
    /\ mp_todo' = Tail(mp_todo)
    /\ UNCHANGED <<mp_pc, mp_npid, mp_since, mp_budget, mp_res>>
    /\ poll_frame

\* Lines 824-843: the response when something was found or the budget is
\* used up, the wait on messages_cv otherwise.
messages_poll_check ==
    /\ mp_pc = "read"
    /\ mp_todo = <<>>
    /\ IF mp_found # <<>> \/ ~mp_budget
       THEN mp_res' = "json" /\ mp_pc' = "done"
       ELSE mp_res' = mp_res /\ mp_pc' = "wait"
    /\ UNCHANGED <<mp_npid, mp_since, mp_todo, mp_found, mp_budget>>
    /\ poll_frame

\* wait_for returns: notify_all of a handler, a spurious wakeup, or the
\* timeout when the 30 s have passed.
messages_poll_wakes(timed_out) ==
    /\ mp_pc = "wait"
    /\ mp_budget' = (mp_budget /\ ~timed_out)
    /\ mp_pc' = "scan"
    /\ UNCHANGED <<mp_npid, mp_since, mp_todo, mp_found, mp_res>>
    /\ poll_frame

\* The handler has returned and the connection takes the next request.
messages_poll_leave ==
    /\ mp_pc = "done"
    /\ mp_pc' = "idle"
    /\ mp_res' = ""
    /\ mp_npid' = ""
    /\ mp_since' = 0
    /\ mp_todo' = <<>>
    /\ mp_found' = <<>>
    /\ mp_budget' = TRUE
    /\ poll_frame

\* A second of the messages clock passes.
messages_second_passes ==
    /\ msg_clock < MaxMsgClock
    /\ msg_clock' = msg_clock + 1
    /\ UNCHANGED <<mp_pc, mp_npid, mp_since, mp_todo, mp_found, mp_budget, mp_res>>
    /\ UNCHANGED <<account_vars, friends_data, inbox_vars, res, registry_vars, poller_vars,
                   notifier_vars, presence_vars, heartbeat_vars, clock_vars, lock_vars,
                   msg_vars, storage_vars, trophy_vars>>

(***************************************************************************)
(* storage.cpp: handle_upload_file, which holds request_mutex and is one    *)
(* step.  Sizes are bytes.  The savedata.xml and trophies.xml descriptions  *)
(* an upload may carry are not kept: no size is read from them.             *)
(***************************************************************************)
\* utils.h: 50 * 1024 * 1024
DEFAULT_QUOTA_TOTAL == 52428800

\* id.starts_with(prefix)
starts_with(id, prefix) ==
    Len(id) >= Len(prefix) /\ SubSeq(id, 1, Len(prefix)) = prefix

\* Lines 158-162 of handle_upload_file.
invalid_id(type, id) ==
    IF type = "savedata" THEN ~starts_with(id, "PCS") \/ Len(id) # 9
    ELSE ~starts_with(id, "NPWR") \/ Len(id) # 12

\* fs::exists(file_path) and fs::file_size(file_path)
file_exists(npid, type, id) ==
    <<npid, type, id>> \in UserFiles /\ stored_files[<<npid, type, id>>] >= 0
file_size(npid, type, id) == stored_files[<<npid, type, id>>]

\* A test that also refuses an upload that fills the quota to the last byte.
over_quota_at_limit(delta, new_used) == (delta > 0) /\ (new_used >= DEFAULT_QUOTA_TOTAL)

\* Line 199: (delta > 0) && (new_used > DEFAULT_QUOTA_TOTAL)
over_quota(delta, new_used) == (delta > 0) /\ (new_used > DEFAULT_QUOTA_TOTAL)

\* An accountant that adds the size of every upload.
quota_after_adding_size(used, newSize, oldSize) == used + newSize

\* Lines 192-197: new_used = used + delta with delta = newSize - oldSize.
\* used is never below oldSize in a reachable state, so the unsigned sum does
\* not wrap.
quota_after(used, newSize, oldSize) == used + (newSize - oldSize)

storage_frame ==
    UNCHANGED <<account_vars, friends_data, inbox_vars, registry_vars, poller_vars,
                notifier_vars, presence_vars, heartbeat_vars, clock_vars, lock_vars,
                msg_vars, msg_poll_vars, trophy_vars>>

handle_upload_file(token, type, id, has_file, newSize) ==
    LET v == get_valid_npid(token)
        npid == v.npid
        oldSize == IF file_exists(npid, type, id) THEN file_size(npid, type, id) ELSE 0
        delta == newSize - oldSize
        used == quota_used[npid]
        new_used == quota_after(used, newSize, oldSize)
    IN
    IF npid = "" THEN early_return(v.err)
    ELSE IF type # "savedata" /\ type # "trophy" THEN early_return("ERR:InvalidType")
    ELSE IF invalid_id(type, id) THEN early_return("ERR:InvalidID")
    ELSE IF ~has_file THEN early_return("ERR:MissingFile")
    ELSE IF ~user_exists(npid) THEN handler_throws
    ELSE IF over_quota(delta, new_used) THEN early_return("ERR:QuotaExceeded")
    ELSE
        /\ quota_used' = [quota_used EXCEPT ![npid] = new_used]
        /\ stored_files' = [stored_files EXCEPT ![<<npid, type, id>>] = newSize]
        /\ res' = "OK:" \o ToString(new_used) \o ":" \o ToString(DEFAULT_QUOTA_TOTAL)
        /\ storage_frame

(***************************************************************************)
(* friend.cpp: trophy level                                                *)
(***************************************************************************)
LevelRange(start_level, end_level, points_per_level, start_points) ==
    [start_level |-> start_level, end_level |-> end_level,
     points_per_level |-> points_per_level, start_points |-> start_points]

ranges ==
    << LevelRange(1, 99, 60, 0),
       LevelRange(100, 199, 90, 5940),
       LevelRange(200, 299, 450, 14940),
       LevelRange(300, 399, 900, 59940),
       LevelRange(400, 499, 1350, 149940),
       LevelRange(500, 599, 1800, 284940),
       LevelRange(600, 699, 2250, 464940),
       LevelRange(700, 799, 2700, 689940),
       LevelRange(800, 899, 3150, 959940),
       LevelRange(900, 999, 3600, 1274940) >>

\* int64_t / and %: the quotient is truncated towards zero.
truncated_quotient(a, b) == IF a >= 0 THEN a \div b ELSE -((-a) \div b)
truncated_remainder(a, b) == a - b * truncated_quotient(a, b)

\* A range that ends one level early.
range_points_without_last_level(range) ==
    (range.end_level - range.start_level) * range.points_per_level

range_points(range) ==
    (range.end_level - range.start_level + 1) * range.points_per_level

\* The body of the loop for the range that matched.
level_in_range(range, points) ==
    LET offset == points - range.start_points
        level_offset == truncated_quotient(offset, range.points_per_level)
        progress_points == truncated_remainder(offset, range.points_per_level)
    IN [level |-> range.start_level + level_offset,
        progress |-> truncated_quotient(progress_points * 100, range.points_per_level)]

RECURSIVE first_range_from(_, _)
first_range_from(points, i) ==
    IF i > Len(ranges) THEN [level |-> 999, progress |-> 100]
    ELSE IF points < ranges[i].start_points + range_points(ranges[i])
         THEN level_in_range(ranges[i], points)
         ELSE first_range_from(points, i + 1)

calculate_trophy_level(points) ==
    first_range_from(IF points < 0 THEN 0 ELSE points, 1)

\* The part of load_trophies_summary after the points are summed.
load_trophies_summary ==
    LET summary == calculate_trophy_level(trophy_points) IN
    /\ trophy_level' = summary.level
    /\ trophy_progress' = summary.progress
    /\ UNCHANGED <<trophy_points, res, account_vars, friends_data, inbox_vars,
                   registry_vars, poller_vars, notifier_vars, presence_vars,
                   heartbeat_vars, clock_vars, lock_vars, msg_vars, msg_poll_vars,
                   storage_vars>>

(***************************************************************************)
(* Initial states                                                          *)
(***************************************************************************)
\* The given accounts exist, each with the token it was created with; main()
\* has seeded the cache from db["tokens"].
InitAccounts(accounts) ==
    /\ users = [n \in Names |->
                 IF n \in accounts
                 THEN [present |-> TRUE, token |-> TokenOf[n], password |-> "pw1"]
                 ELSE NoUser]
    /\ db_tokens = [t \in TokenPool |->
                     IF \E n \in accounts : TokenOf[n] = t
                     THEN CHOOSE n \in accounts : TokenOf[n] = t ELSE ""]
    /\ token_cache = db_tokens
    /\ generated = Cardinality(accounts)

InitFriendFiles == friends_data = [n \in Names |-> EmptyFriends]

InitInbox ==
    /\ friend_events = [n \in Names |-> <<>>]
    /\ events_disk = friend_events

InitPolls ==
    /\ friend_poll_signals = [n \in Names |-> NoSignal]
    /\ waiters = [s \in Signals |-> 0]
    /\ p_pc = [p \in Pollers |-> "idle"]
    /\ p_npid = [p \in Pollers |-> ""]
    /\ p_signal = [p \in Pollers |-> NoSignal]
    /\ p_budget = [p \in Pollers |-> TRUE]
    /\ p_res = [p \in Pollers |-> poll_response("", <<>>, <<>>)]
    /\ n_pc = [n \in Notifiers |-> "idle"]
    /\ n_npid = [n \in Notifiers |-> ""]
    /\ n_signal = [n \in Notifiers |-> NoSignal]

\* Nobody is present and no heartbeat is being handled.
\* No messages poll is running and the messages clock is at its start.
InitMsgPoll ==
    /\ msg_clock = 0
    /\ mp_pc = "idle"
    /\ mp_npid = ""
    /\ mp_since = 0
    /\ mp_todo = <<>>
    /\ mp_found = <<>>
    /\ mp_budget = TRUE
    /\ mp_res = ""

\* handle_create_account: quota_used is 0 and the savedata and trophy
\* directories are empty.
InitStorage ==
    /\ quota_used = [n \in Names |-> 0]
    /\ stored_files = [f \in UserFiles |-> -1]

\* load_trophies_summary's defaults.
InitNoTrophies ==
    /\ trophy_points = 0
    /\ trophy_level = 1
    /\ trophy_progress = 0

\* No conversation exists and no directory is left over.
InitNoConversations ==
    /\ conv_meta = [d \in ConversationDirs |-> NoConversation]
    /\ conv_log = [d \in ConversationDirs |-> <<>>]
    /\ user_convs = [n \in Names |-> <<>>]
    /\ groups_created = 0
    /\ leftover_dirs = {}

\* Nobody is online, no heartbeat is being handled, the sweeper waits for a
\* first user and no mutex is held.
InitNobodyOnline ==
    /\ online_users = [n \in Names |-> "absent"]
    /\ online_now_playing = [n \in Names |-> ""]
    /\ presence_status = [n \in Names |-> "offline"]
    /\ pending_online_poll = {}
    /\ last_status_change = {}
    /\ h_pc = [h \in Heartbeats |-> "idle"]
    /\ h_npid = [h \in Heartbeats |-> ""]
    /\ h_status = [h \in Heartbeats |-> ""]
    /\ h_old_status = [h \in Heartbeats |-> "offline"]
    /\ h_status_changed = [h \in Heartbeats |-> FALSE]
    /\ h_pending = [h \in Heartbeats |-> FALSE]
    /\ subsecond = 0
    /\ heartbeat_age = [n \in Names |-> -1]
    /\ monitor_timer = -1
    /\ mutex_owner = [m \in Mutexes |-> 0]
    /\ lk_routine = [t \in LockThreads |-> ""]
    /\ lk_pc = [t \in LockThreads |-> 1]

InitPresence ==
    /\ InitMsgPoll
    /\ InitStorage
    /\ InitNoTrophies
    /\ InitNoConversations
    /\ InitNobodyOnline

Init ==
    /\ InitAccounts(NPIDs)
    /\ InitFriendFiles
    /\ InitInbox
    /\ InitPolls
    /\ InitPresence
    /\ res = ""

(***************************************************************************)
(* The friend relation engine.  Of the long polls only their effect on the  *)
(* inboxes is kept: the drain of a poll that found events.                 *)
(***************************************************************************)
\* Authorization values of the requests to the friend engine.
FriendReqTokens == {TokenOf[n] : n \in NPIDs} \cup {BadToken, ""}

\* The drain step of a poll authenticated by token, with events to take.
inbox_drained(token) ==
    LET npid == get_valid_npid(token).npid IN
    /\ npid # ""
    /\ friend_events[npid] # <<>>
    /\ get_friend_events_since(npid)
    /\ UNCHANGED <<account_vars, presence_vars, heartbeat_vars, clock_vars, lock_vars, msg_vars, msg_poll_vars, storage_vars, trophy_vars, friends_data, res>>
    /\ no_notify

FriendRequest ==
    \E token \in FriendReqTokens, target_npid \in Targets :
        \/ handle_friend_add(token, target_npid)
        \/ handle_friend_accept(token, target_npid)
        \/ handle_friend_reject(token, target_npid)
        \/ handle_friend_remove(token, target_npid)
        \/ handle_friend_cancel(token, target_npid)
        \/ handle_friend_block(token, target_npid)
        \/ handle_friend_unblock(token, target_npid)

NextFriends ==
    \/ FriendRequest
    \/ \E token \in FriendReqTokens : inbox_drained(token)

SpecFriends == Init /\ [][NextFriends]_vars

(***************************************************************************)
(* The account handlers, on their own.                                     *)
(***************************************************************************)
\* npid and new_npid values a request can carry ("" is a missing parameter).
ReqNPIDs == {"Ann", Stranger, ShortNPID, ""}
\* password values a request can carry ("" is a missing parameter).
ReqPasswords == Passwords \cup {""}

AccountRequest ==
    \/ \E npid \in ReqNPIDs, password \in ReqPasswords :
          \/ handle_create_account(npid, password)
          \/ handle_login(npid, password)
    \/ \E token \in ReqTokens, password \in ReqPasswords :
          handle_delete_account(token, password)
    \/ \E token \in ReqTokens, new_npid \in ReqNPIDs :
          handle_change_npid(token, new_npid)
    \/ \E token \in ReqTokens, old_password \in ReqPasswords, new_password \in ReqPasswords :
          handle_change_password(token, old_password, new_password)

NextAccounts == AccountRequest

\* Ann's account exists, nothing else does.
InitAccountsOnly ==
    /\ InitAccounts({"Ann"})
    /\ InitFriendFiles
    /\ InitInbox
    /\ InitPolls
    /\ InitPresence
    /\ res = ""

SpecAccounts == InitAccountsOnly /\ [][NextAccounts]_vars

(***************************************************************************)
(* Presence heartbeats of two friends, the sweeper, and polls that drain.  *)
(***************************************************************************)
\* Ann and Bob have become friends (add, then accept).
InitFriendships ==
    friends_data = [n \in Names |->
        IF n \in NPIDs
        THEN [EmptyFriends EXCEPT !.friends = <<CHOOSE m \in NPIDs : m # n>>]
        ELSE EmptyFriends]

InitPresenceRun ==
    /\ InitAccounts(NPIDs)
    /\ InitFriendships
    /\ InitInbox
    /\ InitPolls
    /\ InitPresence
    /\ res = ""

\* status and now_playing values a heartbeat can carry.
ReqStatuses == {"online", "not_available", "offline", "", "busy"}
ReqNowPlaying == {""}
\* The heartbeats sent: Ann's carry any status, Bob's are online heartbeats.
Heartbeat(token, status) == [token |-> token, status |-> status]
ReqHeartbeats ==
    {Heartbeat(token, status) : token \in {TokenOf["Ann"], BadToken, ""}, status \in ReqStatuses}
        \cup {Heartbeat(TokenOf["Bob"], "online")}

PresenceSteps(h) ==
    \/ \E req \in ReqHeartbeats, now_playing \in ReqNowPlaying :
          /\ presence_update(h, req.token, req.status, now_playing)
          /\ UNCHANGED <<clock_vars, lock_vars, msg_vars, msg_poll_vars, storage_vars, trophy_vars>>
    \/ presence_notify(h)
    \/ presence_clear(h)

NextPresence ==
    \/ \E h \in Heartbeats : PresenceSteps(h)
    \/ \E npid \in NPIDs : heartbeat_ages(npid) /\ UNCHANGED <<clock_vars, lock_vars, msg_vars, msg_poll_vars, storage_vars, trophy_vars>>
    \/ monitor_online_users /\ UNCHANGED <<clock_vars, lock_vars, msg_vars, msg_poll_vars, storage_vars, trophy_vars>>
    \/ \E token \in FriendReqTokens : inbox_drained(token)

SpecPresence == InitPresenceRun /\ [][NextPresence]_vars

\* Heartbeats on the clock: Ann's client sends one whenever it likes, or
\* stops; Bob's sends one every HeartbeatPeriod seconds once it has started.
ClockedHeartbeats(h) ==
    \/ \E status \in {"online", "not_available"} :
          presence_update_at(h, TokenOf["Ann"], status)
    \/ /\ heartbeat_age["Bob"] \in {-1, HeartbeatPeriod * TicksPerSecond}
       /\ presence_update_at(h, TokenOf["Bob"], "online")
    \/ presence_notify(h)
    \/ presence_clear(h)

NextSweeper ==
    \/ \E h \in Heartbeats : ClockedHeartbeats(h)
    \/ time_passes
    \/ monitor_pass

InitSweeper ==
    /\ InitAccounts(NPIDs)
    /\ InitFriendFiles
    /\ InitInbox
    /\ InitPolls
    /\ InitPresence
    /\ res = ""

SpecSweeper == InitSweeper /\ [][NextSweeper]_vars

NextLocks ==
    \/ \E t \in LockThreads \ {SweeperThread}, routine \in HandlerRoutines :
          routine_starts(t, routine)
    \/ \E routine \in SweeperRoutines : routine_starts(SweeperThread, routine)
    \/ \E t \in LockThreads : acquires(t)
    \/ \E t \in LockThreads : releases(t)
    \/ \E t \in LockThreads : accesses(t)
    \/ \E t \in LockThreads : routine_returns(t)

SpecLocks == InitSweeper /\ [][NextLocks]_vars

(***************************************************************************)
(* The conversation handlers, on their own.                                *)
(***************************************************************************)
\* Authorization values of the requests to the messages engine.
MsgReqTokens == {TokenOf["Ann"], TokenOf["Bob"], BadToken}
\* participants arrays a create request can carry.
ReqParticipants == {<<"Bob">>, <<"Ann", "Bob", "Cid">>, <<Stranger>>}
\* message and participant values ("" is an empty string in the body).
ReqMessages == {"hi", ""}
ReqNewParticipants == {"Cid", Stranger, ""}

MessagesRequest ==
    \/ \E token \in MsgReqTokens, req_participants \in ReqParticipants,
          message \in ReqMessages :
          handle_messages_create(token, req_participants, message)
    \/ \E token \in MsgReqTokens, conversation_id \in ReqConversationIDs,
          new_participant \in ReqNewParticipants :
          handle_messages_add_participant(token, conversation_id, new_participant)
    \/ \E token \in MsgReqTokens, conversation_id \in ReqConversationIDs :
          handle_messages_leave(token, conversation_id)
    \/ \E token \in MsgReqTokens, conversation_id \in ReqConversationIDs :
          handle_messages_delete_conversation(token, conversation_id)

NextMessages == MessagesRequest

\* Ann, Bob and Cid have accounts and no conversation exists.
InitMessages ==
    /\ InitAccounts(PollNPIDs)
    /\ InitFriendFiles
    /\ InitInbox
    /\ InitPolls
    /\ InitPresence
    /\ res = ""

SpecMessages == InitMessages /\ [][NextMessages]_vars

(***************************************************************************)
(* The account handlers for users who have a friend file, a conversation    *)
(* index and a stored file, with the delete_conversation that writes into   *)
(* the directories of the names a conversation lists.                       *)
(***************************************************************************)
\* Ann and Bob are friends, Bob has created the conversation with Ann, and
\* Ann has uploaded a 5 MiB save.
InitRename ==
    /\ InitAccounts(NPIDs)
    /\ InitFriendships
    /\ InitInbox
    /\ InitPolls
    /\ InitMsgPoll
    /\ InitNoTrophies
    /\ InitNobodyOnline
    /\ quota_used = [n \in Names |-> IF n = "Ann" THEN 5242880 ELSE 0]
    /\ stored_files = [f \in UserFiles |->
                         IF f = <<"Ann", "savedata", "PCSA00001">> THEN 5242880 ELSE -1]
    /\ conv_meta = [d \in ConversationDirs |->
                      IF d = "Ann_Bob"
                      THEN [exists |-> TRUE, participants |-> <<"Bob", "Ann">>,
                            creator |-> "Bob"]
                      ELSE NoConversation]
    /\ conv_log = [d \in ConversationDirs |->
                     IF d = "Ann_Bob"
                     THEN <<[from |-> "Bob", msg |-> "hi", timestamp |-> 0]>> ELSE <<>>]
    /\ user_convs = [n \in Names |-> IF n \in NPIDs THEN <<"Ann_Bob">> ELSE <<>>]
    /\ groups_created = 0
    /\ leftover_dirs = {}
    /\ res = "OK:5242880:52428800"

\* new_npid values of the change_npid requests.
RenameNPIDs == {"Ann", "Bob", Stranger, ""}

\* The tokens Ann and Bob hold.
RenameTokens == {TokenOf["Ann"], TokenOf["Bob"]}

NextRename ==
    \/ \E token \in RenameTokens, new_npid \in RenameNPIDs :
          handle_change_npid(token, new_npid)
    \/ \E token \in RenameTokens :
          handle_delete_account(token, "pw1")
    \/ handle_create_account("Ann", "pw1")
    \/ \E token \in RenameTokens :
          handle_messages_delete_conversation(token, "Ann_Bob")

SpecRename == InitRename /\ [][NextRename]_vars

(***************************************************************************)
(* The trophy level of sampled points values.                               *)
(***************************************************************************)
\* The points where the table ends.
table_end == ranges[Len(ranges)].start_points + range_points(ranges[Len(ranges)])

\* Negative values, every value within TrophyWindow of a range's start and
\* of the table's end, every TrophyStride-th value of the table, and the
\* largest value an int holds.
TrophyPoints ==
    (-TrophyWindow .. -1)
    \cup UNION {(ranges[i].start_points - TrophyWindow) .. (ranges[i].start_points + TrophyWindow) :
                  i \in 1..Len(ranges)}
    \cup ((table_end - TrophyWindow) .. (table_end + TrophyWindow))
    \cup {k * TrophyStride : k \in 0 .. (table_end \div TrophyStride) + 1}
    \cup {2147483647}

InitTrophy ==
    /\ InitAccounts(NPIDs)
    /\ InitFriendFiles
    /\ InitInbox
    /\ InitPolls
    /\ InitMsgPoll
    /\ InitStorage
    /\ InitNoConversations
    /\ InitNobodyOnline
    /\ trophy_points \in TrophyPoints
    /\ trophy_level = 1
    /\ trophy_progress = 0
    /\ res = ""

NextTrophy == load_trophies_summary

SpecTrophy == InitTrophy /\ [][NextTrophy]_vars

(***************************************************************************)
(* Friend requests of users whose accounts are deleted and created again.   *)
(***************************************************************************)
NextBlock ==
    \/ \E token \in TokenPool, target_npid \in NPIDs :
          \/ handle_friend_add(token, target_npid)
          \/ handle_friend_accept(token, target_npid)
          \/ handle_friend_block(token, target_npid)
    \/ \E token \in TokenPool : handle_delete_account(token, "pw1")
    \/ handle_create_account("Ann", "pw1")

SpecBlock == Init /\ [][NextBlock]_vars

(***************************************************************************)
(* Uploads of Ann and Bob.                                                  *)
(***************************************************************************)
\* Sizes of the uploaded file, in bytes: empty, 5, 20, 40 and 50 MiB, and one
\* byte more than the quota.
UploadSizes == {0, 5242880, 20971520, 41943040, 52428800, 52428801}
\* Authorization values of the uploads.
UploadTokens == {TokenOf["Ann"], TokenOf["Bob"], BadToken}

\* type, id and file part of the uploads: each file of UserFiles, and one
\* request for each way of being refused before the quota is looked at.
UploadRequests ==
    {<<f[2], f[3], TRUE>> : f \in UserFiles}
        \cup {<<"avatar", "PCSA00001", TRUE>>, <<"savedata", "PCSA1", TRUE>>,
              <<"trophy", "PCSA00001", TRUE>>, <<"savedata", "", TRUE>>,
              <<"savedata", "PCSA00001", FALSE>>}

\* Ann uploads under every id, Bob under one.
NextStorage ==
    \E token \in UploadTokens, request \in UploadRequests, newSize \in UploadSizes :
       /\ token = TokenOf["Bob"] => request[2] = "PCSA00001"
       /\ handle_upload_file(token, request[1], request[2], request[3], newSize)

SpecStorage == Init /\ [][NextStorage]_vars

(***************************************************************************)
(* Create requests whose participants array names somebody twice, names the *)
(* requester or names nobody, with the requests that take a conversation    *)
(* away again.                                                              *)
(***************************************************************************)
CreateParticipants ==
    {<<>>, <<"">>, <<"Bob">>, <<"Ann">>, <<"Bob", "Bob">>, <<"Ann", "Bob">>,
     <<"Ann", "Ann">>, <<"Bob", "Cid">>}

NextCreate ==
    \/ \E token \in MsgReqTokens, req_participants \in CreateParticipants,
          message \in ReqMessages :
          handle_messages_create(token, req_participants, message)
    \/ \E token \in MsgReqTokens, conversation_id \in CreatedIDs :
          handle_messages_leave(token, conversation_id)
    \/ \E token \in MsgReqTokens, conversation_id \in CreatedIDs :
          handle_messages_delete_conversation(token, conversation_id)

SpecCreate == InitMessages /\ [][NextCreate]_vars

(***************************************************************************)
(* The message logs: create, send, delete and leave requests of Ann and     *)
(* Bob, the messages clock, and one long poll.                              *)
(***************************************************************************)
\* Authorization values of the requests of Ann and Bob.
LogTokens == {TokenOf["Ann"], TokenOf["Bob"]}
\* participants arrays of the create requests: the other one, or oneself.
LogParticipants == {<<"Bob">>, <<"Ann">>}
\* timestamps arrays a delete request can carry.
ReqTimestamps ==
    {<<>>} \cup {<<t>> : t \in 0..MaxMsgClock}
           \cup {<<t, u>> : t \in 0..MaxMsgClock, u \in 0..MaxMsgClock}
\* conversation_id values of the requests: the conversation of Ann and Bob,
\* spelled as create returned it or with a trailing separator.
LogConversationIDs == {"Ann_Bob", "Ann_Bob/"}

LogRequest ==
    \/ \E token \in LogTokens, req_participants \in LogParticipants :
          handle_messages_create(token, req_participants, "hi")
    \/ \E token \in LogTokens, conversation_id \in LogConversationIDs :
          handle_messages_send(token, conversation_id, "hi")
    \/ \E token \in LogTokens, conversation_id \in LogConversationIDs,
          timestamps \in ReqTimestamps :
          handle_messages_delete(token, conversation_id, timestamps)
    \/ \E token \in LogTokens, conversation_id \in LogConversationIDs :
          handle_messages_leave(token, conversation_id)

MessagesPollSteps ==
    \/ \E token \in MsgReqTokens, since_str \in SinceStrings :
          messages_poll_begin(token, since_str)
    \/ messages_poll_scan
    \/ messages_poll_read
    \/ messages_poll_check
    \/ \E timed_out \in BOOLEAN : messages_poll_wakes(timed_out)
    \/ messages_poll_leave

NextMsgLog ==
    \/ LogRequest
    \/ MessagesPollSteps
    \/ messages_second_passes

SpecMsgLog == InitMessages /\ [][NextMsgLog]_vars

\* Bob is in Ann's friends list twice and Ann in Bob's: block(Bob, Ann),
\* add(Bob, Ann), add(Ann, Bob), unblock(Bob, Ann), then an accept by each.
InitFriendshipsTwice ==
    friends_data = [n \in Names |->
        IF n \in NPIDs
        THEN LET m == CHOOSE m \in NPIDs : m # n
             IN [EmptyFriends EXCEPT !.friends = <<m, m>>]
        ELSE EmptyFriends]

InitPresenceTwice ==
    /\ InitAccounts(NPIDs)
    /\ InitFriendshipsTwice
    /\ InitInbox
    /\ InitPolls
    /\ InitPresence
    /\ res = ""

SpecPresenceTwice == InitPresenceTwice /\ [][NextPresence]_vars

(***************************************************************************)
(* Long polls running beside handlers that push an event and notify.       *)
(***************************************************************************)
InitPolling ==
    /\ InitAccounts(PollNPIDs)
    /\ InitFriendFiles
    /\ InitInbox
    /\ InitPolls
    /\ InitPresence
    /\ res = ""

\* Authorization values of the poll requests.
PollReqTokens == {TokenOf["Ann"], TokenOf["Bob"], BadToken, ""}

\* The events a handler pushes on behalf of the accounts senders: a friend
\* request, or a status change to online.
PushedEvents(senders) ==
    {RequestEvent(sender) : sender \in senders}
        \cup {StatusEvent(sender, TRUE) : sender \in senders}

\* Events are pushed into A's inbox.
FriendNotify(n, senders) ==
    \/ \E event \in PushedEvents(senders) : notifier_push(n, "Ann", event)
    \/ notifier_lookup(n)
    \/ notifier_notify(n)

PollingSteps(p) ==
    \/ \E token \in PollReqTokens, since_ok \in BOOLEAN : poll_begin(p, token, since_ok)
    \/ poll_register(p)
    \/ poll_drain(p)
    \/ poll_check(p)
    \/ poll_timeout(p)
    \/ poll_spurious_wakeup(p)
    \/ poll_leave(p)

\* Concurrent polls for A and for B, beside handlers pushing B's events to A.
NextPolling ==
    \/ \E p \in Pollers : PollingSteps(p)
    \/ \E n \in Notifiers : FriendNotify(n, {"Bob"})

SpecPolling == InitPolling /\ [][NextPolling]_vars

\* One poll at a time, beside a handler pushing B's and C's events to A.
NextDrain ==
    \/ PollingSteps(1)
    \/ FriendNotify(1, {"Bob", "Cid"})

SpecDrain == InitPolling /\ [][NextDrain]_vars

\* The friend handlers beside a long poll that may be waiting on its signal.
PolledFriendRequest ==
    \E npid \in NPIDs : \E target_npid \in NPIDs \ {npid} :
        \/ handle_friend_add(TokenOf[npid], target_npid)
        \/ handle_friend_accept(TokenOf[npid], target_npid)
        \/ handle_friend_reject(TokenOf[npid], target_npid)
        \/ handle_friend_remove(TokenOf[npid], target_npid)
        \/ handle_friend_cancel(TokenOf[npid], target_npid)
        \/ handle_friend_block(TokenOf[npid], target_npid)
        \/ handle_friend_unblock(TokenOf[npid], target_npid)

NextFriendsPolled ==
    \/ PolledFriendRequest
    \/ PollingSteps(1)

SpecFriendsPolled == Init /\ [][NextFriendsPolled]_vars

(***************************************************************************)
(* Relations between two users, read from their friend files               *)
(***************************************************************************)
friends_of(a) == friends_data[a].friends
sent_of(a) == friends_data[a].sent
received_of(a) == friends_data[a].received
blocked_of(a) == friends_data[a].players_blocked

\* The relations that hold between a and b, each under one name.
relations(a, b) ==
    (IF has_friend(friends_of(a), b) \/ has_friend(friends_of(b), a) THEN {"friends"} ELSE {})
    \cup (IF has_friend(sent_of(a), b) \/ has_friend(received_of(b), a) THEN {"sent_by_a"} ELSE {})
    \cup (IF has_friend(sent_of(b), a) \/ has_friend(received_of(a), b) THEN {"sent_by_b"} ELSE {})
    \cup (IF has_friend(blocked_of(a), b) THEN {"blocked_by_a"} ELSE {})
    \cup (IF has_friend(blocked_of(b), a) THEN {"blocked_by_b"} ELSE {})

\* sent(a->b) stored on a's side only, while b blocks a.
silent_pending(a, b) ==
    /\ has_friend(sent_of(a), b)
    /\ ~has_friend(received_of(b), a)
    /\ has_friend(blocked_of(b), a)

(***************************************************************************)
(* C1: friendship is symmetric after any sequence of friend requests: B is *)
(* in A's friends list if and only if A is in B's friends list.            *)
(***************************************************************************)
C1_FriendshipSymmetric ==
    \A a \in NPIDs, b \in NPIDs :
        has_friend(friends_of(a), b) <=> has_friend(friends_of(b), a)

\* A remove has just ended a friendship: neither side lists the other.
C1_Witness ==
    /\ res = "OK:FriendRemoved"
    /\ ~has_friend(friends_of("Ann"), "Bob")
    /\ ~has_friend(friends_of("Bob"), "Ann")

(***************************************************************************)
(* C2: pending requests are mirrored: Y is in X's sent list if and only if *)
(* X is in Y's received list, except that a sent entry of X towards Y may  *)
(* lack its mirror while Y has X in its blocked list.                      *)
(***************************************************************************)
C2_PendingMirrored ==
    \A x \in NPIDs, y \in NPIDs :
        /\ has_friend(received_of(y), x) => has_friend(sent_of(x), y)
        /\ (has_friend(sent_of(x), y) /\ ~has_friend(received_of(y), x))
              => has_friend(blocked_of(y), x)

\* An unblock has just recreated the mirror of a silently stored request.
C2_Witness ==
    /\ res = "OK:PlayerUnblocked"
    /\ has_friend(sent_of("Bob"), "Ann")
    /\ has_friend(received_of("Ann"), "Bob")
    /\ ~has_friend(blocked_of("Ann"), "Bob")

(***************************************************************************)
(* C3: for every pair of users at most one of friends, sent-by-A,          *)
(* sent-by-B, blocked-by-A, blocked-by-B holds, except for the silent case *)
(* in which only sent(A->B) together with blocked(B->A) holds.             *)
(***************************************************************************)
C3_RelationsDisjoint ==
    \A a \in NPIDs, b \in NPIDs :
        a # b =>
            \/ Cardinality(relations(a, b)) <= 1
            \/ relations(a, b) = {"sent_by_a", "blocked_by_b"} /\ silent_pending(a, b)
            \/ relations(a, b) = {"sent_by_b", "blocked_by_a"} /\ silent_pending(b, a)

\* The account that stores token as its own, "" when none does.
holder_of(token) ==
    IF \E n \in Names : users[n].present /\ users[n].token = token
    THEN CHOOSE n \in Names : users[n].present /\ users[n].token = token
    ELSE ""

(***************************************************************************)
(* C4: after any sequence of account requests every NPID in the user table *)
(* has its stored token mapped to that NPID in the token cache, and every  *)
(* token of the persisted tokens map refers to an NPID of the user table.  *)
(***************************************************************************)
C4_TokensConsistent ==
    /\ \A n \in Names :
          users[n].present => get_npid_from_token(users[n].token) = n
    /\ \A t \in DOMAIN db_tokens :
          db_tokens[t] # "" => user_exists(db_tokens[t])

\* Ann has just been renamed to Zoe and keeps the token she was created with.
C4_Witness ==
    /\ res = "OK:NPIDChanged"
    /\ ~users["Ann"].present
    /\ users["Zoe"].present
    /\ users["Zoe"].token = TokenOf["Ann"]

(***************************************************************************)
(* C5: a token that change_password replaced, or whose account             *)
(* delete_account removed, is rejected with ERR:InvalidToken by every      *)
(* later authenticated request, and the token an account holds resolves to *)
(* that account.                                                           *)
(***************************************************************************)
C5_RevokedTokensRejected ==
    \A t \in issued_tokens :
        IF holder_of(t) # ""
        THEN get_valid_npid(t).npid = holder_of(t)
        ELSE get_valid_npid(t).err = "ERR:InvalidToken"

(***************************************************************************)
(* C10: a heartbeat pushes status_changed(online) into a friend's inbox if *)
(* and only if its status is online, the sender's previous status was      *)
(* offline or the sender was flagged in pending_online_poll, and the       *)
(* friend is present in the presence table at the fan-out; no other step   *)
(* of a heartbeat pushes any event.                                        *)
(***************************************************************************)
C10_FanOutRule ==
    [][\A h \in Heartbeats :
          /\ (h_pc[h] = "notify" /\ h_pc'[h] # "notify") =>
                \A f \in Names :
                    IF /\ h_status[h] = "online"
                       /\ (h_old_status[h] = "offline" \/ h_pending[h])
                       /\ has_friend(friends_of(h_npid[h]), f)
                       /\ online_users[f] # "absent"
                    THEN friend_events'[f] =
                            Append(friend_events[f], StatusEvent(h_npid[h], TRUE))
                    ELSE friend_events'[f] = friend_events[f]
          /\ (h_pc'[h] # h_pc[h] /\ h_pc[h] # "notify") =>
                friend_events' = friend_events]_vars

(***************************************************************************)
(* Long polls, read from the handlers' positions                           *)
(***************************************************************************)
\* The handlers inside a friends poll for npid, from signal lookup to return.
polls_in_progress(npid) == {p \in Pollers : p_pc[p] # "idle" /\ p_npid[p] = npid}

\* The handlers blocked in wait_for inside a friends poll for npid.
blocked_for(npid) == {p \in Pollers : p_pc[p] = "waiting" /\ p_npid[p] = npid}

\* The friends_request_received events of a list that name sender.
requests_from(events, sender) ==
    {i \in 1..Len(events) :
        events[i].type = "friends_request_received" /\ events[i].npid = sender}

(***************************************************************************)
(* C6: a poll in progress for X never blocks on its signal while X's inbox *)
(* holds an event, unless the notify of that push is still to come or      *)
(* another poll for X is about to drain the inbox; and a poll that returns *)
(* without events returns "{}", at the end of its budget.                  *)
(***************************************************************************)
C6_PollNeverBlocksOnEvents ==
    \A p \in Pollers :
        /\ (p_pc[p] = "waiting" /\ friend_events[p_npid[p]] # <<>>) =>
              \/ \E n \in Notifiers : n_pc[n] # "idle" /\ n_npid[n] = p_npid[p]
              \/ \E q \in Pollers \ {p} :
                    p_npid[q] = p_npid[p] /\ p_pc[q] \in {"register", "drain"}
        /\ p_pc[p] = "leave" =>
              \/ p_res[p].body = "changes"
                    /\ (p_res[p].events # <<>> \/ p_res[p].friend_status # <<>>)
              \/ p_res[p].body = "{}" /\ ~p_budget[p]

(***************************************************************************)
(* C7: notify(npid) reaches the handlers blocked in a friends poll for     *)
(* npid: when one is blocked at the lookup, the lookup finds the signal a  *)
(* blocked handler of npid waits on; notify_one then wakes exactly one     *)
(* handler blocked on the signal found, and changes nothing when no        *)
(* handler is blocked in a poll for npid.                                  *)
(***************************************************************************)
C7_NotifyWakesOneWaiter ==
    [][\A n \in Notifiers :
          /\ (n_pc[n] = "lookup" /\ n_pc'[n] = "notify" /\ blocked_for(n_npid[n]) # {}) =>
                \E p \in blocked_for(n_npid[n]) : p_signal[p] = n_signal'[n]
          /\ (n_pc[n] = "notify" /\ n_pc'[n] = "idle") =>
                IF blocked_on(n_signal[n]) # {}
                THEN \E p \in blocked_on(n_signal[n]) :
                        /\ p_npid[p] = n_npid[n]
                        /\ p_pc' = [p_pc EXCEPT ![p] = "drain"]
                ELSE p_pc' = p_pc]_vars

(***************************************************************************)
(* C8: the registry of poll signals does not leak: an NPID has an entry    *)
(* only while a friends poll for it is in progress, and an entry whose     *)
(* signal counts no waiter belongs to a poll that has looked it up and is  *)
(* about to register (the last waiter to depart removed it otherwise).     *)
(***************************************************************************)
C8_RegistryDoesNotLeak ==
    \A x \in Names :
        LET signal == friend_poll_signals[x] IN
        signal # NoSignal =>
            /\ polls_in_progress(x) # {}
            /\ waiters[signal] = 0 =>
                  \E p \in polls_in_progress(x) :
                      p_pc[p] = "register" /\ p_signal[p] = signal

\* Both handlers polled for Ann on one signal; the first has returned and, as
\* the last registered waiter, removed the entry while the other still holds
\* the signal.
C8_Witness ==
    /\ p_pc[1] = "idle"
    /\ p_pc[2] = "register"
    /\ p_npid[2] = "Ann"
    /\ p_signal[2] # NoSignal
    /\ friend_poll_signals["Ann"] = NoSignal

(***************************************************************************)
(* C9: one drain of an inbox by the friends poll returns exactly one       *)
(* friends_request_received event for every distinct sender that has at    *)
(* least one such event in the inbox.                                      *)
(***************************************************************************)
C9_OneRequestPerSender ==
    [][\A p \in Pollers :
          (p_pc[p] = "drain" /\ p_pc'[p] # "drain") =>
              \A sender \in Names :
                  requests_from(friend_events[p_npid[p]], sender) # {} =>
                      Cardinality(requests_from(p_res'[p].events, sender)) = 1]_vars

(***************************************************************************)
(* Presence, read from the tables                                          *)
(***************************************************************************)
\* The accounts in the friends list of npid that have a heartbeat entry.
present_friends(npid) ==
    {f \in Names : has_friend(friends_of(npid), f) /\ online_users[f] # "absent"}

\* A pass of the sweeper: an entry expires and no heartbeat handler moves.
sweeper_step ==
    /\ \E n \in Names : online_users[n] = "stale" /\ online_users'[n] = "absent"
    /\ h_pc' = h_pc

(***************************************************************************)
(* C11: the sweeper's expiry pushes no event, every status_changed event   *)
(* in an inbox carries status online, and the online heartbeat of a user   *)
(* who was absent from the presence table (an expired user is in the state *)
(* of one who went offline) pushes exactly one status_changed(online)      *)
(* event to each friend present in the table and nothing to anyone else.   *)
(***************************************************************************)
C11_TimeoutSilentResumptionOnce ==
    /\ [](\A n \in Names : \A i \in 1..Len(friend_events[n]) :
             friend_events[n][i].type = "status_changed" =>
                 friend_events[n][i].status = "online")
    /\ [][/\ sweeper_step => friend_events' = friend_events
          /\ \A h \in Heartbeats :
                (/\ h_pc[h] = "notify" /\ h_pc'[h] # "notify"
                 /\ h_status[h] = "online" /\ h_old_status[h] = "offline") =>
                    \A f \in Names :
                        friend_events'[f] =
                            IF f \in present_friends(h_npid[h])
                            THEN Append(friend_events[f], StatusEvent(h_npid[h], TRUE))
                            ELSE friend_events[f]]_vars


\* C12: an entry of the presence table is never older than twice the timeout
\* (60 s after its last heartbeat), whatever the other users send, and a user
\* without an entry has no now_playing, status or pending entry either.
C12_ExpiredWithinTwoTimeouts ==
    /\ \A n \in Names : heartbeat_age[n] <= 2 * timeout_threshold * TicksPerSecond
    /\ \A n \in Names : online_users[n] = "absent" =>
          /\ online_now_playing[n] = ""
          /\ presence_status[n] = "offline"
          /\ n \notin pending_online_poll


presence_tables == {"online_users", "online_now_playing", "presence_status",
                    "pending_online_poll", "last_status_change"}

\* C13: a thread that is about to read or write one of the presence tables,
\* pending_online_poll or last_status_change holds online_users_mutex.
C13_PresenceTablesUnderMutex ==
    \A t \in LockThreads :
        (next_op(t).op = "access" /\ next_op(t).on \in presence_tables) =>
            mutex_owner["online_users_mutex"] = t

\* A thread that has started a routine and is not waiting for a held mutex.
can_step(t) ==
    /\ lk_routine[t] # ""
    /\ ~(next_op(t).op = "lock" /\ mutex_owner[next_op(t).on] # 0)

\* C14: a thread about to lock a mutex holds only mutexes that come earlier
\* in the documented order, and whenever some thread is inside a routine some
\* thread inside a routine can take its next step (no deadlock).
C14_LockOrderNoDeadlock ==
    /\ \A t \in LockThreads :
          next_op(t).op = "lock" =>
              \A m \in held_by(t) : rank(m) < rank(next_op(t).on)
    /\ (\E t \in LockThreads : lk_routine[t] # "") => \E t \in LockThreads : can_step(t)

\* A handler holds three nested mutexes while another thread waits for one.
C14_Witness ==
    \E t, u \in LockThreads :
        /\ held_by(t) = {"request_mutex", "account_mutex", "online_users_mutex"}
        /\ next_op(u).op = "lock"
        /\ mutex_owner[next_op(u).on] = t


\* How many entries of list name npid.
occurrences(list, npid) == Cardinality({i \in 1..Len(list) : list[i] = npid})

plain_pending(a, b) ==
    /\ relations(a, b) = {"sent_by_a"}
    /\ has_friend(sent_of(a), b)
    /\ has_friend(received_of(b), a)

\* C17: the two adds run one after the other (each holds request_mutex from
\* its first line to its return).  From no relation and no block, the add
\* that runs first stores a plain request and does not accept; the mirror add
\* that runs second accepts: each user is in the other's friends list once
\* and neither keeps a sent or received entry for the other.
C17_MirrorAddsEndAsFriends ==
    [][\A a \in NPIDs : \A b \in NPIDs \ {a} :
          /\ (handle_friend_add(TokenOf[a], b) /\ relations(a, b) = {}) =>
                /\ res' = "OK:RequestSent"
                /\ ~has_friend(friends_data'[a].friends, b)
                /\ ~has_friend(friends_data'[b].friends, a)
                /\ has_friend(friends_data'[a].sent, b)
                /\ has_friend(friends_data'[b].received, a)
          /\ (handle_friend_add(TokenOf[b], a) /\ plain_pending(a, b)) =>
                /\ res' = "OK:FriendAdded"
                /\ occurrences(friends_data'[a].friends, b) = 1
                /\ occurrences(friends_data'[b].friends, a) = 1
                /\ ~has_friend(friends_data'[a].sent, b)
                /\ ~has_friend(friends_data'[a].received, b)
                /\ ~has_friend(friends_data'[b].sent, a)
                /\ ~has_friend(friends_data'[b].received, a)]_vars

\* The mirror add has just accepted: the two are friends, nothing is pending
\* between them and the first add's event is still in the inbox.
C17_Witness ==
    \E a \in NPIDs : \E b \in NPIDs \ {a} :
        /\ res = "OK:FriendAdded"
        /\ relations(a, b) = {"friends"}
        /\ requests_from(friend_events[b], a) # {}


\* The conversation ID of a directory that holds a conversation: the ID
\* create generated and stored in the participants' indexes.
index_holds(npid, dir) == in_index(user_convs[npid], dir)

\* C18: every account among the participants of a stored conversation has
\* its ID in its index; a create that succeeds leaves the new ID in every
\* participant's index; a delete_conversation that succeeds leaves the ID of
\* the deleted conversation in no index.
C18_IndexesFollowParticipants ==
    /\ [](\A dir \in ConversationDirs : \A n \in PollNPIDs :
            (conv_meta[dir].exists /\ has_friend(conv_meta[dir].participants, n)) =>
                index_holds(n, dir))
    /\ [][\A dir \in ConversationDirs :
            /\ (~conv_meta[dir].exists /\ conv_meta'[dir].exists) =>
                  \A n \in Names :
                      has_friend(conv_meta'[dir].participants, n) =>
                          in_index(user_convs'[n], dir)
            /\ (conv_meta[dir].exists /\ ~conv_meta'[dir].exists) =>
                  \A n \in Names : ~in_index(user_convs'[n], dir)]_vars


\* C19: a delete_conversation of a stored conversation by an account that is
\* not its creator answers ERR:NotCreator and changes no metadata, no message
\* log and no index.
C19_OnlyCreatorDeletes ==
    [][\A n \in PollNPIDs : \A conversation_id \in ReqConversationIDs :
          (/\ load_conversation_metadata(conversation_id).exists
           /\ load_conversation_metadata(conversation_id).creator # n
           /\ handle_messages_delete_conversation(TokenOf[n], conversation_id)) =>
              /\ res' = "ERR:NotCreator"
              /\ msg_vars' = msg_vars]_vars

\* A participant who is not the creator has just been refused.
C19_Witness ==
    /\ res = "ERR:NotCreator"
    /\ \E dir \in ConversationDirs :
          /\ conv_meta[dir].exists
          /\ conv_meta[dir].creator = "Ann"
          /\ has_friend(conv_meta[dir].participants, "Bob")
          /\ index_holds("Bob", dir)

\* C20: a leave that succeeds takes the user out of the participants and the
\* conversation's ID out of the user's index, and leaves the message log,
\* the creator, the other participants and the other indexes as they were.
C20_LeaveTouchesOnlyTheLeaver ==
    [][\A n \in PollNPIDs : \A conversation_id \in ReqConversationIDs :
          LET dir == get_conversation_dir(conversation_id) IN
          (/\ conv_meta[dir].exists
           /\ is_user_in_conversation(conversation_id, n)
           /\ handle_messages_leave(TokenOf[n], conversation_id)) =>
              /\ res' = "OK:LeftConversation"
              /\ ~has_friend(conv_meta'[dir].participants, n)
              /\ ~in_index(user_convs'[n], dir)
              /\ conv_meta'[dir].participants =
                    SelectSeq(conv_meta[dir].participants, LAMBDA p : p # n)
              /\ conv_meta'[dir].creator = conv_meta[dir].creator
              /\ conv_log' = conv_log
              /\ \A d \in ConversationDirs \ {dir} : conv_meta'[d] = conv_meta[d]
              /\ \A u \in Names \ {n} : user_convs'[u] = user_convs[u]]_vars

\* The position of the first entry of messages with the timestamp that npid
\* sent (0: none).
first_own_with_timestamp(messages, timestamp, npid) ==
    IF \E i \in 1..Len(messages) :
            messages[i].timestamp = timestamp /\ messages[i].from = npid
    THEN CHOOSE i \in 1..Len(messages) :
            /\ messages[i].timestamp = timestamp /\ messages[i].from = npid
            /\ \A j \in 1..(i - 1) :
                  ~(messages[j].timestamp = timestamp /\ messages[j].from = npid)
    ELSE 0

\* The log after, for each timestamp in turn, the first entry with that
\* timestamp sent by npid was removed.
RECURSIVE own_entries_removed(_, _, _)
own_entries_removed(messages, timestamps, npid) ==
    IF timestamps = <<>> THEN messages
    ELSE LET i == first_own_with_timestamp(messages, Head(timestamps), npid) IN
         own_entries_removed(IF i = 0 THEN messages ELSE erase_at(messages, i),
                             Tail(timestamps), npid)

\* C22: a delete request of a participant R removes, for each requested
\* timestamp, exactly the first log entry with that timestamp that R sent,
\* when there is one, and nothing else; it answers ERR:NoMessagesDeleted,
\* with the log unchanged, exactly when there is nothing to remove.
C22_DeleteRemovesOwnEntries ==
    [][\A token \in LogTokens : \A conversation_id \in LogConversationIDs :
         \A timestamps \in ReqTimestamps \ {<<>>} :
           LET npid == get_npid_from_token(token)
               dir == get_conversation_dir(conversation_id)
               expected == own_entries_removed(conv_log[dir], timestamps, npid)
           IN
           (/\ conv_meta[dir].exists
            /\ has_friend(conv_meta[dir].participants, npid)
            /\ handle_messages_delete(token, conversation_id, timestamps))
           => /\ conv_log'[dir] = expected
              /\ (res' = "ERR:NoMessagesDeleted") <=> (expected = conv_log[dir])]_vars

\* The messages a poll of npid is to return: over the entries of npid's
\* index, in their order, the messages newer than since that npid did not
\* send, of the conversations npid takes part in.
RECURSIVE received_over(_, _, _)
received_over(user_conversations, since_timestamp, npid) ==
    IF user_conversations = <<>> THEN <<>>
    ELSE (IF is_user_in_conversation(Head(user_conversations), npid)
          THEN received_since(load_conversation_messages(Head(user_conversations)),
                              since_timestamp, npid)
          ELSE <<>>)
         \o received_over(Tail(user_conversations), since_timestamp, npid)

\* C23: when a messages poll of R with parameter since returns an array, it
\* is exactly the messages newer than since and not sent by R of the
\* conversations in R's index that R has not left; the array is empty only
\* after the budget has expired, and the poll waits only when its scan found
\* nothing and budget is left.
C23_PollReturnsReceivedMessages ==
    [][/\ (mp_pc = "read" /\ mp_pc' = "done") =>
            /\ mp_found' = received_over(user_convs[mp_npid], mp_since, mp_npid)
            /\ (mp_found' = <<>> => ~mp_budget)
       /\ (mp_pc = "read" /\ mp_pc' = "wait") => (mp_found = <<>> /\ mp_budget)]_vars

\* The names a create request of npid asks for: npid and every non-empty
\* entry of the participants array.
requested_names(npid, req_participants) ==
    {npid} \cup ({req_participants[i] : i \in 1..Len(req_participants)} \ {""})

\* C21: a create that succeeds stores participants in which the requester
\* and each requested name occur exactly once, and a create of an
\* authenticated requester with a message is refused with
\* ERR:NotEnoughParticipants exactly when fewer than two distinct names
\* result.
C21_CreateParticipantsOnce ==
    [][\A token \in LogTokens : \A req_participants \in CreateParticipants :
         LET npid == get_npid_from_token(token)
             names == requested_names(npid, req_participants)
         IN
         handle_messages_create(token, req_participants, "hi") =>
            /\ (res' = "ERR:NotEnoughParticipants") <=> (Cardinality(names) < 2)
            /\ \A dir \in ConversationDirs :
                  (~conv_meta[dir].exists /\ conv_meta'[dir].exists) =>
                      \A n \in Names :
                          occurrences(conv_meta'[dir].participants, n)
                              = IF n \in names THEN 1 ELSE 0]_vars

\* The sum of the sizes of the files of files that exist.
RECURSIVE sum_of_sizes(_)
sum_of_sizes(files) ==
    IF files = {} THEN 0
    ELSE LET f == CHOOSE f \in files : TRUE IN
         (IF stored_files[f] >= 0 THEN stored_files[f] ELSE 0)
             + sum_of_sizes(files \ {f})

files_of(npid) == {f \in UserFiles : f[1] = npid}

C25_QuotaExceededExactly ==
    /\ [](\A n \in Uploaders : quota_used[n] <= 52428800)
    /\ [][\A n \in Uploaders : \A f \in files_of(n) : \A newSize \in UploadSizes :
            LET stored == IF stored_files[f] >= 0 THEN stored_files[f] ELSE 0 IN
            handle_upload_file(TokenOf[n], f[2], f[3], TRUE, newSize) =>
               /\ (res' = "ERR:QuotaExceeded")
                     <=> (newSize > stored /\ quota_used[n] + newSize - stored > 52428800)
               /\ (res' = "ERR:QuotaExceeded") => UNCHANGED storage_vars
               /\ (res' # "ERR:QuotaExceeded") => stored_files'[f] = newSize]_vars

\* The second upload of the scenario has just been refused: Ann holds a
\* 40 MiB save and nothing else.
C25_Witness ==
    /\ res = "ERR:QuotaExceeded"
    /\ quota_used["Ann"] = 41943040
    /\ stored_files[<<"Ann", "savedata", "PCSA00001">>] = 41943040
    /\ stored_files[<<"Ann", "savedata", "PCSB00002">>] = -1

\* C26: the event journal on disk equals the in-memory inbox after every
\* operation that changes the inbox.
C26_JournalEqualsInbox == events_disk = friend_events

\* C27: every key of the user table is an NPID of 3 to 16 characters.
C27_UserKeysHaveValidLength ==
    \A n \in Names : user_exists(n) => (Len(n) >= 3 /\ Len(n) <= 16)

\* The stored files of npid, by type and id.
files_in(files, npid) ==
    [k \in {<<f[2], f[3]>> : f \in UserFiles} |-> files[<<npid, k[1], k[2]>>]]

band_of(points) ==
    ranges[CHOOSE i \in 1..Len(ranges) :
             /\ ranges[i].start_points <= points
             /\ i < Len(ranges) => points < ranges[i + 1].start_points]

table_level(points) ==
    band_of(points).start_level
      + ((points - band_of(points).start_points) \div band_of(points).points_per_level)

table_progress(points) ==
    (100 * ((points - band_of(points).start_points) % band_of(points).points_per_level))
      \div band_of(points).points_per_level

\* C29: calculate_trophy_level gives, for 0 <= points < 1634940, the level
\* and progress of the band of the table that contains points, a level in
\* 1..999 and a progress in 0..99, and a level that is not below the level of
\* fewer points; for negative points level 1 and progress 0; for points at or
\* above 1634940 level 999 and progress 100.
C29_TrophyLevelFollowsTable ==
    [][load_trophies_summary =>
         /\ (0 <= trophy_points /\ trophy_points < 1634940) =>
               /\ trophy_level' = table_level(trophy_points)
               /\ trophy_progress' = table_progress(trophy_points)
               /\ trophy_level' \in 1..999
               /\ trophy_progress' \in 0..99
         /\ trophy_points < 0 => (trophy_level' = 1 /\ trophy_progress' = 0)
         /\ trophy_points >= 1634940 => (trophy_level' = 999 /\ trophy_progress' = 100)
         /\ \A d \in {1, 15, TrophyStride} :
               calculate_trophy_level(trophy_points - d).level <= trophy_level']_vars

\* Level 100 with progress 50 has been computed from 5985 points, the first
\* level of the second band.
C29_Witness ==
    /\ trophy_points = 5985
    /\ trophy_level = 100
    /\ trophy_progress = 50

\* C30: a block by A of B that answers OK:PlayerBlocked leaves B once in A's
\* blocked list, neither of the two in the other's friends list, no sent
\* entry for B and no received entry for B in A's file, and no received entry
\* for A in B's file; no block changes an inbox, and a block of oneself
\* answers ERR:CannotBlockYourself and changes no friend file.
C30_BlockClearsRelations ==
    [][\A token \in TokenPool : \A b \in NPIDs :
          LET a == get_npid_from_token(token) IN
          (/\ a \in NPIDs
           /\ user_exists(a)
           /\ handle_friend_block(token, b)) =>
              /\ res' = "OK:PlayerBlocked" =>
                    /\ occurrences(friends_data'[a].players_blocked, b) = 1
                    /\ ~has_friend(friends_data'[a].friends, b)
                    /\ ~has_friend(friends_data'[b].friends, a)
                    /\ ~has_friend(friends_data'[a].sent, b)
                    /\ ~has_friend(friends_data'[b].received, a)
                    /\ ~has_friend(friends_data'[a].received, b)
              /\ a = b =>
                    /\ res' = "ERR:CannotBlockYourself"
                    /\ friends_data' = friends_data
              /\ inbox_vars' = inbox_vars]_vars

(***************************************************************************)
(* The friend requests of Ann and Bob with a third user, Cid, who sends    *)
(* requests to Bob and cancels them, so that an inbox holds events of two  *)
(* senders.                                                                *)
(***************************************************************************)
NextInbox ==
    \/ \E npid \in NPIDs : \E target_npid \in NPIDs :
          \/ handle_friend_add(TokenOf[npid], target_npid)
          \/ handle_friend_accept(TokenOf[npid], target_npid)
          \/ handle_friend_reject(TokenOf[npid], target_npid)
          \/ handle_friend_remove(TokenOf[npid], target_npid)
          \/ handle_friend_cancel(TokenOf[npid], target_npid)
          \/ handle_friend_block(TokenOf[npid], target_npid)
          \/ handle_friend_unblock(TokenOf[npid], target_npid)
    \/ handle_friend_add(TokenOf["Cid"], "Bob")
    \/ handle_friend_cancel(TokenOf["Cid"], "Bob")
    \/ \E npid \in NPIDs : inbox_drained(TokenOf[npid])

SpecInbox == InitPolling /\ [][NextInbox]_vars

\* The events of an inbox that are not friends_request_received events of
\* the sender.
other_events(inbox, sender) ==
    SelectSeq(inbox, LAMBDA e : ~(e.type = "friends_request_received" /\ e.npid = sender))

add_goes_through(a, b) ==
    /\ ~has_friend(friends_of(a), b)
    /\ ~has_friend(sent_of(a), b)
    /\ ~has_friend(blocked_of(b), a)

\* b's request to a is pending on either side.
request_crosses(a, b) == has_friend(received_of(a), b) \/ has_friend(sent_of(b), a)

\* C32: an add by A of B that creates a plain request answers
\* OK:RequestSent, appends one friends_request_received event naming A to
\* the end of B's inbox, leaves the other inboxes alone and wakes a poll
\* blocked on the signal registered for B; an add that auto-accepts answers
\* OK:FriendAdded and changes no inbox.
C32_PlainAddPushesOneEvent ==
    [][\A a \in NPIDs : \A b \in NPIDs \ {a} :
          (handle_friend_add(TokenOf[a], b) /\ add_goes_through(a, b)) =>
              /\ ~request_crosses(a, b) =>
                    /\ res' = "OK:RequestSent"
                    /\ friend_events'[b] = Append(friend_events[b], RequestEvent(a))
                    /\ \A n \in Names \ {b} : friend_events'[n] = friend_events[n]
                    /\ blocked_on(notify_lookup(b)) # {} =>
                          \E p \in blocked_on(notify_lookup(b)) : p_pc'[p] # "waiting"
              /\ request_crosses(a, b) =>
                    /\ res' = "OK:FriendAdded"
                    /\ inbox_vars' = inbox_vars]_vars

\* Bob's request has just reached Ann's inbox, behind an older event, and
\* her poll has left its wait.
C32_Witness ==
    /\ res = "OK:RequestSent"
    /\ has_friend(received_of("Ann"), "Bob")
    /\ Len(friend_events["Ann"]) = 2
    /\ friend_events["Ann"][2] = RequestEvent("Bob")
    /\ \E p \in Pollers : p_npid[p] = "Ann" /\ p_pc[p] = "drain"

\* The ERR: lines of the friend relation handlers.
FriendErrorLines ==
    {"ERR:MissingToken", "ERR:InvalidToken", "ERR:MissingTargetNPID", "ERR:UserNotFound",
     "ERR:AlreadyFriends", "ERR:RequestAlreadySent", "ERR:NoRequestFound", "ERR:NotFriends",
     "ERR:CannotAddYourself", "ERR:CannotBlockYourself"}

\* Their OK: lines.
FriendOkLines ==
    {"OK:RequestSent", "OK:FriendAdded", "OK:RequestRejected", "OK:FriendRemoved",
     "OK:RequestCancelled", "OK:PlayerBlocked", "OK:PlayerUnblocked"}

\* C33: an add, accept, reject, cancel, remove, block or unblock request
\* answers one of the seven OK: lines or one of the ten ERR: lines, and one
\* that answers an ERR: line leaves every friend file and every inbox as it
\* was.
C33_ErrorsChangeNothing ==
    [][FriendRequest =>
          /\ res' \in FriendErrorLines \cup FriendOkLines
          /\ res' \in FriendErrorLines => UNCHANGED <<friends_data, inbox_vars>>]_vars

\* A cancel has just been refused while the inbox of the other user holds
\* the event of a request that was accepted.
C33_Witness ==
    \E a \in NPIDs : \E b \in NPIDs \ {a} :
        /\ res = "ERR:NoRequestFound"
        /\ has_friend(friends_of(a), b)
        /\ friend_events[b] # <<>>
        /\ friend_events[b][1] = RequestEvent(a)

\* A step of a messages handler that answers with an OK: line.
messages_mutation ==
    /\ res' # res
    /\ res' \notin {"ERR:MissingToken", "ERR:InvalidToken", "ERR:MissingConversationID",
                    "ERR:MissingMessage", "ERR:ConversationNotFound", "ERR:NotInConversation",
                    "ERR:NoMessagesDeleted", "ERR:ConversationAlreadyExists",
                    "ERR:NotEnoughParticipants", "ERR:UserNotFound", "ERR:MissingTimestamps"}
    /\ <<conv_meta, conv_log, user_convs>>' # <<conv_meta, conv_log, user_convs>>

\* C34: a step that changes the messaging store takes a poll that is blocked
\* in wait_for out of its wait, and no messages poll is blocked in wait_for
\* while a conversation of its index that it takes part in holds a message
\* newer than its since that it did not send.
C34_PollNeverBlocksOnMessages ==
    /\ [][(messages_mutation /\ mp_pc = "wait") => mp_pc' = "scan"]_vars
    /\ [](mp_pc = "wait" => received_over(user_convs[mp_npid], mp_since, mp_npid) = <<>>)

(***************************************************************************)
(* A client that is away before it is online: Ann's heartbeats go from     *)
(* offline to not_available, any number of times, and then to online or    *)
(* back to offline; not_available is never sent while she is online.  Her  *)
(* requests are served one after the other by handler 1, Bob's by handler  *)
(* 2.                                                                      *)
(***************************************************************************)
AwayStatuses == {"not_available", "online", "offline"}

NextAway ==
    \/ \E status \in AwayStatuses :
          /\ status = "not_available" => presence_status["Ann"] # "online"
          /\ presence_update(1, TokenOf["Ann"], status, "")
          /\ UNCHANGED <<clock_vars, lock_vars, msg_vars, msg_poll_vars, storage_vars, trophy_vars>>
    \/ \E status \in {"online", "offline"} :
          /\ presence_update(2, TokenOf["Bob"], status, "")
          /\ UNCHANGED <<clock_vars, lock_vars, msg_vars, msg_poll_vars, storage_vars, trophy_vars>>
    \/ \E h \in Heartbeats : presence_notify(h)
    \/ \E h \in Heartbeats : presence_clear(h)
    \/ \E npid \in NPIDs : inbox_drained(TokenOf[npid])

SpecAway == InitPresenceRun /\ [][NextAway]_vars

\* C35: the online heartbeat of a user whose status was not_available, and
\* who has sent nothing but not_available heartbeats since being offline,
\* appends a status_changed(online) event to the inbox of each friend that is
\* in the presence table when the heartbeat decides the fan-out, however many
\* not_available heartbeats went before.
C35_AwayThenOnlineFansOut ==
    [][(/\ h_pc[1] = "notify"
        /\ h_pc'[1] # "notify"
        /\ h_npid[1] = "Ann"
        /\ h_status[1] = "online"
        /\ h_old_status[1] = "not_available") =>
            \A f \in NPIDs :
                (has_friend(friends_of("Ann"), f) /\ online_users[f] # "absent") =>
                    friend_events'[f] = Append(friend_events[f], StatusEvent("Ann", TRUE))]_vars

\* C36: every friends_request_received event held in an inbox names the
\* sender of a request that is still pending: an event naming A in B's inbox
\* implies that A is in B's received list.
C36_RequestEventsArePending ==
    \A b \in PollNPIDs : \A i \in 1..Len(friend_events[b]) :
        friend_events[b][i].type = "friends_request_received" =>
            has_friend(received_of(b), friend_events[b][i].npid)

no_duplicates(list) == \A i \in 1..Len(list) : \A j \in 1..Len(list) : list[i] = list[j] => i = j

\* C37: no friends, sent, received or blocked list holds the same NPID more
\* than once, and no user is in a list of their own file, whatever friend
\* requests have been served.
C37_ListsAreSetsWithoutSelf ==
    \A a \in DOMAIN friends_data :
        \A list \in {friends_of(a), sent_of(a), received_of(a), blocked_of(a)} :
            /\ no_duplicates(list)
            /\ ~has_friend(list, a)

all_users(list) == \A i \in 1..Len(list) : user_exists(list[i])

\* C38: every NPID held in a friends, sent, received or blocked list, in the
\* participants or the creator field of a conversation, or owning a
\* non-empty inbox, is a key of the user table, also after accounts were
\* deleted or renamed.
C38_ReferencesAreUsers ==
    /\ \A a \in DOMAIN friends_data :
          /\ all_users(friends_of(a))
          /\ all_users(sent_of(a))
          /\ all_users(received_of(a))
          /\ all_users(blocked_of(a))
    /\ \A d \in ConversationDirs :
          conv_meta[d].exists =>
              /\ all_users(conv_meta[d].participants)
              /\ user_exists(conv_meta[d].creator)
    /\ \A n \in DOMAIN friend_events : friend_events[n] # <<>> => user_exists(n)

(***************************************************************************)
(* A recipient that keeps polling: Bob opens the conversation with Ann and *)
(* sends to it, second 0 of the clock being past; Ann polls with since=0   *)
(* and, after every response, polls again passing the largest timestamp    *)
(* she has received so far.                                                *)
(***************************************************************************)
\* The largest timestamp of the messages, or floor when there is none above.
largest_timestamp(messages, floor) ==
    LET ts == {messages[i].timestamp : i \in 1..Len(messages)} \cup {floor}
    IN CHOOSE t \in ts : \A u \in ts : u <= t

\* The handler has returned its array and the same client sends its next
\* poll (lines 775-796 again), since being the largest timestamp received.
messages_poll_again ==
    /\ mp_pc = "done"
    /\ mp_res = "json"
    /\ get_valid_npid(TokenOf[mp_npid]).npid = mp_npid
    /\ mp_since' = largest_timestamp(mp_found, mp_since)
    /\ mp_pc' = "scan"
    /\ mp_res' = ""
    /\ mp_todo' = <<>>
    /\ mp_found' = <<>>
    /\ mp_budget' = TRUE
    /\ UNCHANGED mp_npid
    /\ poll_frame

RecipientPolls ==
    \/ messages_poll_begin(TokenOf["Ann"], "0")
    \/ messages_poll_scan
    \/ messages_poll_read
    \/ messages_poll_check
    \/ \E timed_out \in BOOLEAN : messages_poll_wakes(timed_out)
    \/ messages_poll_again

NextRecipient ==
    \/ msg_clock > 0 /\ handle_messages_create(TokenOf["Bob"], <<"Ann">>, "hi")
    \/ msg_clock > 0 /\ handle_messages_send(TokenOf["Bob"], "Ann_Bob", "yo")
    \/ RecipientPolls
    \/ messages_second_passes

\* The poll handler and the client always take their next step.
SpecRecipient == InitMessages /\ [][NextRecipient]_vars /\ WF_vars(RecipientPolls)

\* Bob's message with this text is in the log of the conversation.
stored_for_ann(text) ==
    \E i \in 1..Len(conv_log["Ann_Bob"]) :
        conv_log["Ann_Bob"][i].msg = text /\ conv_log["Ann_Bob"][i].from = "Bob"

\* A poll of Ann answers with an array that holds the message.
returned_to_ann(text) ==
    /\ mp_pc = "done"
    /\ mp_npid = "Ann"
    /\ \E j \in 1..Len(mp_found) : mp_found[j].msg = text

\* C39: a message Bob stored in a conversation of Ann's index is eventually
\* in the response of one of Ann's polls, when she keeps polling with the
\* largest timestamp she has received, also when it carries the timestamp of
\* a message she already received.
C39_NoMessageLostToPolling ==
    \A text \in {"hi", "yo"} : (<>stored_for_ann(text)) => (<>returned_to_ann(text))

\* s can be obtained from t by leaving entries out, the order being kept.
is_subsequence(s, t) ==
    \E f \in [1..Len(s) -> 1..Len(t)] :
        /\ \A i \in 1..Len(s) : s[i] = t[f[i]]
        /\ \A i \in 1..Len(s) : \A j \in 1..Len(s) : i < j => f[i] < f[j]

\* The status entries of the events of an inbox, in their order.
status_entries(events) ==
    LET changed == SelectSeq(events, LAMBDA e : e.type = "status_changed")
    IN [i \in 1..Len(changed) |-> [npid |-> changed[i].npid, status |-> changed[i].status]]

\* C40: a drain of a friends poll takes the whole inbox in one step and
\* leaves it empty, so that no other poll can return what it took; the
\* events of its response are events of that inbox in their insertion
\* order, its status entries are those of the inbox in their order, and no
\* other poll's response changes.
C40_DrainIsAtomicAndOrdered ==
    [][\A p \in Pollers :
          (p_pc[p] = "drain" /\ p_pc'[p] # "drain") =>
              LET inbox == friend_events[p_npid[p]] IN
              /\ friend_events'[p_npid[p]] = <<>>
              /\ \A n \in DOMAIN friend_events \ {p_npid[p]} :
                    friend_events'[n] = friend_events[n]
              /\ p_pc'[p] = "leave" =>
                    /\ is_subsequence(p_res'[p].events,
                           SelectSeq(inbox, LAMBDA e : e.type # "status_changed"))
                    /\ p_res'[p].friend_status = status_entries(inbox)
              /\ p_pc'[p] = "check" => inbox = <<>>
              /\ \A q \in Pollers \ {p} : p_res'[q] = p_res[q]]_vars

\* Two polls of Ann have each drained events and hold their responses.
C40_Witness ==
    /\ \A p \in Pollers :
          /\ p_pc[p] = "leave"
          /\ p_npid[p] = "Ann"
          /\ p_res[p].body = "changes"
    /\ friend_events["Ann"] = <<>>

====
